---- MODULE Spec2Model ----
(***************************************************************************)
(* Market synchronization of lenny (backend/worker.py): the Celery tasks   *)
(* fetch_all_regions_orders and fetch_market_orders, the POST /refresh     *)
(* trigger (backend/routers/market.py), the three tables they write        *)
(* (backend/models.py) and the remote order feed they read.                *)
(*                                                                         *)
(* Database model.  Every worker runs fetch_market_orders on its own       *)
(* SessionLocal() session (autocommit=False) against PostgreSQL at its     *)
(* default isolation level, READ COMMITTED: a statement reads the latest   *)
(* committed rows overlaid with the session's own uncommitted writes, a    *)
(* write waits while another open transaction holds the row (or the key),  *)
(* and db.commit() publishes the session's writes at once.  tx[w] is the   *)
(* uncommitted write set of worker w; orders, etags and status are the     *)
(* committed tables, the ones every other session and reader sees.         *)
(*                                                                         *)
(* Beside the sync engine: _normalize_etag_for_request applied to every    *)
(* value the validator column may hold (SpecEtag), and the MCP tool        *)
(* find_trade_routes (backend/mcp_handlers/tools.py) over bounded jump     *)
(* graphs and order books (SpecRoutes) and between the steps of the sync   *)
(* cycles (SpecBeside).                                                    *)
(*                                                                         *)
(* The history table: fetch_region_history run by one worker beside        *)
(* GET /history across a change of the UTC date (SpecHistory), alone       *)
(* (SpecRuns), and run by two workers that may overlap (SpecOverlap); a    *)
(* day is a number, and market_history is the count of rows per            *)
(* (type_id, date) of one region.  The task names: the periodic schedule,  *)
(* the other senders and the worker's lookup in its registry               *)
(* (SpecTriggers).  The bulk upsert statement over market_orders with      *)
(* every column (SpecUpsert), and the fan-out with the lock's timeout and  *)
(* a running worker as fairness conditions (SpecFanLive).                  *)
(***************************************************************************)
EXTENDS Integers, Sequences, FiniteSets, TLC

VARIABLES
    clock,      \* datetime.now(timezone.utc), a strictly increasing tick
    place,      \* the remote feed: place[o] = page that serves order o, 0 = not in the feed
    feedChanges,\* number of upstream changes so far (bounds the feed's churn)
    sendsEtag,  \* whether the feed's 200 responses carry an ETag header
    orders,     \* table market_orders (committed): order_id -> row
    etags,      \* table region_etags (committed): region -> page -> etag
    status,     \* table region_fetch_status (committed): region -> row
    queue,      \* the Celery queue of fetch_market_orders messages (region ids)
    enqueued,   \* number of fetch_market_orders messages sent so far
    pc,         \* pc[w]: where worker w is inside fetch_market_orders
    run,        \* run[w]: the local variables of the invocation worker w executes
    tx,         \* tx[w]: the uncommitted writes of worker w's session
    result,     \* result[w]: how the last invocation on worker w ended
    lock,       \* redis key lock:fetch_all_regions_orders: its holder or "free"
    spc,        \* spc[i]: where invocation i of fetch_all_regions_orders is
    todo,       \* todo[i]: regions invocation i has still to dispatch
    sent,       \* sent[i]: regions invocation i has dispatched a job for
    norm,       \* one application of _normalize_etag_for_request: its argument and its result
    jumps,      \* table sde_solar_system_jumps: the directed pairs <<from, to>>
    book,       \* the rows of market_orders at the stations of the route graph, joined to
                \* sde_stations as find_trade_routes selects them (orders of a region
                \* the modelled cycles do not sync)
    call,       \* call[c]: the invocation of find_trade_routes that client c awaits
    today,      \* datetime.now(timezone.utc).date() as a day number
    hfeed,      \* the remote history feed: hfeed[t] = the dates it has a daily record of type t for
    history,    \* table market_history (committed): rows of one region
    hrun,       \* hrun[h]: the invocation of fetch_region_history that worker h executes
    hstarted,   \* number of fetch_region_history invocations started so far
    inbox,      \* the broker: the set of task messages sent and not yet received
    ran,        \* the task invocations the workers have started, by registered name
    rejected,   \* the messages a worker has discarded as naming no registered task
    beats,      \* number of messages the beat scheduler has sent so far
    market_orders,      \* table market_orders with every column: order_id -> row
    temp_market_orders, \* the temporary table the bulk upsert copies the collected rows to
    upserts,    \* number of bulk upserts started so far, the clock of their start times
    skipped     \* history, not program state: skipped[r] = the pages after the first whose
                \* request failed in the last committed cycle of region r, as long as
                \* the feed has not changed since

vars == <<clock, place, feedChanges, sendsEtag, skipped, orders, etags, status, queue, enqueued,
          pc, run, tx, result, lock, spc, todo, sent, norm, jumps, book, call,
          today, hfeed, history, hrun, hstarted, inbox, ran, rejected, beats,
          market_orders, temp_market_orders, upserts>>

engineVars == <<clock, place, feedChanges, sendsEtag, skipped, orders, etags, status, pc, run, tx,
                result>>
sweepVars == <<lock, spc, todo, sent>>
\* what the MCP tool find_trade_routes reads and holds, and the probe of the normalisation
toolVars == <<norm, jumps, book, call>>
\* what fetch_region_history and GET /history read, write and hold
historyVars == <<today, hfeed, history, hrun, hstarted>>
\* what the beat scheduler, the broker and the task registry hold
beatVars == <<inbox, ran, rejected, beats>>
\* what the bulk upsert statement of fetch_market_orders reads and writes
upsertVars == <<market_orders, temp_market_orders, upserts>>

----------------------------------------------------------------------------
(* Bounds of the model *)

\* cycles of fetch_market_orders that may start
MaxClock == 3
\* upstream changes of the feed
MaxFeedChanges == 1
\* fetch_market_orders messages that may be sent
MaxJobs == 3
\* order ids of the feed
NumOrders == 2
\* pages of the feed (the X-Pages header)
NumPages == 2
\* longest stored validator the normalisation is applied to
MaxEtagLen == 5

\* the first cycle, in start order, that a second worker's cycle may overlap: the
\* second worker takes a message only while the first is busy and only from this start
\* time on, which keeps the interleavings of two cycles and leaves out those of three
OverlapFrom == MaxClock - 1

Workers == {"w1", "w2"}
Sweeps == {"i1", "i2"}
\* table sde_regions, the catalog
Regions == {1, 2}
OrderIds == 1 .. NumOrders
Pages == 1 .. NumPages
\* the region_id values POST /refresh is called with
RefreshRegions == {1}
\* every order of the modelled feed is an order of region 1; region 2 has an empty market
RegionOfOrder(o) == 1
\* statuses other than 200 and 304 that a request may return
ErrorStatuses == {500}

----------------------------------------------------------------------------
(* Strings are sequences of characters *)

Quote == "\""
NoEtag == << >>

RECURSIVE LStrip(_)
LStrip(e) == IF e # << >> /\ Head(e) = " " THEN LStrip(Tail(e)) ELSE e

RECURSIVE RStrip(_)
RStrip(e) == IF e # << >> /\ e[Len(e)] = " " THEN RStrip(SubSeq(e, 1, Len(e) - 1)) ELSE e

\* str.strip()
Strip(e) == RStrip(LStrip(e))

\* str.startswith(pre)
StartsWith(e, pre) == Len(e) >= Len(pre) /\ SubSeq(e, 1, Len(pre)) = pre

\* a normalisation that strips the surrounding quotes and does not put them back
normalize_etag_Unquoted(etag) ==
    IF etag = << >> THEN NoEtag
    ELSE LET e0 == Strip(etag)
         IN IF StartsWith(e0, <<Quote>>) /\ e0[Len(e0)] = Quote /\ Len(e0) >= 2
            THEN SubSeq(e0, 2, Len(e0) - 1)
            ELSE e0

\* a normalisation that wraps the value in quotes without stripping the ones it has
normalize_etag_Rewrapped(etag) ==
    IF etag = << >> THEN NoEtag
    ELSE LET e0 == Strip(etag)
             weak == StartsWith(e0, <<"W", "/">>) \/ StartsWith(e0, <<"w", "/">>)
             e1 == IF weak THEN Strip(SubSeq(e0, 3, Len(e0))) ELSE e0
             quoted == <<Quote>> \o e1 \o <<Quote>>
         IN IF weak THEN <<"W", "/">> \o quoted ELSE quoted

\* a normalisation that detects the weak prefix and does not put it back
normalize_etag_Strong(etag) ==
    IF etag = << >> THEN NoEtag
    ELSE LET e0 == Strip(etag)
             weak == StartsWith(e0, <<"W", "/">>) \/ StartsWith(e0, <<"w", "/">>)
             e1 == IF weak THEN Strip(SubSeq(e0, 3, Len(e0))) ELSE e0
             e2 == IF StartsWith(e1, <<Quote>>) /\ e1 # << >> /\ e1[Len(e1)] = Quote /\ Len(e1) >= 2
                   THEN SubSeq(e1, 2, Len(e1) - 1)
                   ELSE e1
         IN <<Quote>> \o e2 \o <<Quote>>

\* _normalize_etag_for_request; None is the empty sequence
normalize_etag_for_request(etag) ==
    IF etag = << >> THEN NoEtag
    ELSE LET e0 == Strip(etag)
             weak == StartsWith(e0, <<"W", "/">>) \/ StartsWith(e0, <<"w", "/">>)
             e1 == IF weak THEN Strip(SubSeq(e0, 3, Len(e0))) ELSE e0
             e2 == IF StartsWith(e1, <<Quote>>) /\ e1 # << >> /\ e1[Len(e1)] = Quote /\ Len(e1) >= 2
                   THEN SubSeq(e1, 2, Len(e1) - 1)
                   ELSE e1
             quoted == <<Quote>> \o e2 \o <<Quote>>
         IN IF weak THEN <<"W", "/">> \o quoted ELSE quoted

\* the characters a stored validator is made of: a letter, the two spellings of the
\* weak prefix, the quote and the blank that str.strip() removes
Chars == {"a", "W", "w", "/", Quote, " "}

\* the values column region_etags.etag may hold, None and the empty string included
StoredEtags == UNION {[1 .. n -> Chars] : n \in 0 .. MaxEtagLen}

\* no normalisation applied yet
NoNorm == [etag |-> NoEtag, header |-> NoEtag, done |-> FALSE]

\* one call _normalize_etag_for_request(etag)
Normalize ==
    /\ ~norm.done
    /\ norm' = [norm EXCEPT !.header = normalize_etag_for_request(norm.etag), !.done = TRUE]
    /\ UNCHANGED <<engineVars, queue, enqueued, sweepVars, jumps, book, call,
                 historyVars, beatVars, upsertVars>>

----------------------------------------------------------------------------
(* The remote order feed *)

Digit(n) == CASE n = 0 -> "0" [] n = 1 -> "1" [] n = 2 -> "2" [] n = 3 -> "3"
              [] n = 4 -> "4" [] OTHER -> "9"

RECURSIVE SortedSeq(_)
\* the members of a set of integers in increasing order
SortedSeq(S) ==
    IF S = {} THEN << >>
    ELSE LET m == CHOOSE x \in S : \A y \in S : x <= y
         IN <<m>> \o SortedSeq(S \ {m})

RECURSIVE Digits(_)
Digits(s) == IF s = << >> THEN << >> ELSE <<Digit(Head(s))>> \o Digits(Tail(s))

\* the orders page p of region r serves
PageData(pl, r, p) == {o \in OrderIds : RegionOfOrder(o) = r /\ pl[o] = p}

\* the ETag header of a page: a quoted token that identifies its content
EtagOf(S) == <<Quote>> \o (IF S = {} THEN <<"0">> ELSE Digits(SortedSeq(S))) \o <<Quote>>

\* the status the feed answers a page request with, other than an error:
\* 304 when the If-None-Match header is the page's current ETag, byte for byte
FeedStatus(header, content) ==
    IF header # NoEtag /\ header = EtagOf(content) THEN 304 ELSE 200

----------------------------------------------------------------------------
(* Rows *)

NoRow == [live |-> FALSE, updated_at |-> 0]
NoStatus == [present |-> FALSE, last_fetch_started |-> 0, last_fetch_completed |-> 0,
             last_fetch_success |-> FALSE, orders_fetched |-> 0]
NoWrite == [w |-> FALSE, live |-> FALSE, updated_at |-> 0]
NoTx == [ord |-> [o \in OrderIds |-> NoWrite],
         etg |-> [p \in Pages |-> NoEtag],
         st |-> [w |-> FALSE, row |-> NoStatus]]

IdleRun == [region_id |-> 0, fetch_start_time |-> 0,
            existing_etags |-> [p \in Pages |-> NoEtag],
            page |-> 0, bound |-> FALSE,
            orders_to_process |-> << >>, etags_to_update |-> << >>,
            any_page_changed |-> FALSE, any_page_unchanged |-> FALSE,
            last_fetch |-> 0, code |-> 0,
            got |-> [p \in Pages |-> 0],
            feed_moved |-> FALSE,
            stored_before |-> {}]
NoResult == [status |-> "none", code |-> 0, orders_count |-> 0]

Range(s) == {s[i] : i \in 1 .. Len(s)}

\* what worker w's session reads for order o
ViewOrder(w, o) ==
    IF tx[w].ord[o].w THEN [live |-> tx[w].ord[o].live, updated_at |-> tx[w].ord[o].updated_at]
    ELSE orders[o]

\* what worker w's session reads for the region's status row
ViewStatus(w, r) == IF tx[w].st.w THEN tx[w].st.row ELSE status[r]

\* a row (or key) that another open transaction has written is locked until it ends
OrderLocked(w, o) == \E v \in Workers \ {w} : tx[v].ord[o].w
EtagLocked(w, r, p) == \E v \in Workers \ {w} : tx[v].etg[p] # NoEtag /\ run[v].region_id = r
StatusLocked(w, r) == \E v \in Workers \ {w} : tx[v].st.w /\ run[v].region_id = r

----------------------------------------------------------------------------
(* The MCP tool find_trade_routes *)

Callers == {"c1", "c2"}

Min(a, b) == IF a <= b THEN a ELSE b

\* table sde_solar_systems
SdeSolarSystems == {[name |-> "Jita", system_id |-> 1],
                    [name |-> "Perimeter", system_id |-> 2],
                    [name |-> "Amarr", system_id |-> 3]}
Systems == {s.system_id : s \in SdeSolarSystems}

\* the rows table sde_solar_system_jumps is drawn from
JumpPairs == {<<1, 2>>, <<2, 3>>, <<2, 1>>, <<1, 3>>}

\* the rows of market_orders (joined to the station's system) the order book is drawn from
BookOrders == {[order_id |-> 101, type_id |-> 34, price |-> 10, volume_remain |-> 100,
                is_buy_order |-> FALSE, solar_system_id |-> 1],
               [order_id |-> 102, type_id |-> 34, price |-> 15, volume_remain |-> 50,
                is_buy_order |-> TRUE, solar_system_id |-> 3],
               [order_id |-> 103, type_id |-> 34, price |-> 10, volume_remain |-> 50,
                is_buy_order |-> TRUE, solar_system_id |-> 2]}

\* parameter limit when the caller leaves it out
DefaultLimit == 5

\* the arguments a client calls the tool with
CallArgs == [start_system_name : {"Jita", "Nowhere"}, max_jumps : {1, 2},
             budget : {300, 1000}, limit : {1, DefaultLimit}]

NoVisited == [s \in {} |-> 0]
\* what the call has returned: kind is "error" for the dict {"error": ...}, "list" for the
\* list of opportunities (value), "raised" for an exception that left the function
Pending == [kind |-> "pending", what |-> "", value |-> << >>]
NoCall == [pc |-> "idle", args |-> [start_system_name |-> "", max_jumps |-> 0, budget |-> 0,
                                     limit |-> 0],
           start_system_id |-> 0, visited |-> NoVisited, result |-> Pending]

\* collections.deque.pop(*args): it takes no argument and removes the right end
deque_pop(q, args) ==
    IF args # << >> THEN [raised |-> "TypeError", value |-> 0, rest |-> q]
    ELSE [raised |-> "", value |-> q[Len(q)], rest |-> SubSeq(q, 1, Len(q) - 1)]

RECURSIVE Visit(_, _, _, _)
\* for neighbor in adj[current]: the neighbours not yet visited get dist + 1 and are queued
Visit(ns, dist, visited, fifo) ==
    IF ns = {} THEN [visited |-> visited, queue |-> fifo]
    ELSE LET n == CHOOSE x \in ns : \A y \in ns : x <= y
         IN IF n \in DOMAIN visited
            THEN Visit(ns \ {n}, dist, visited, fifo)
            ELSE Visit(ns \ {n}, dist,
                       [s \in DOMAIN visited \cup {n} |-> IF s = n THEN dist + 1 ELSE visited[s]],
                       Append(fifo, n))

RECURSIVE Bfs(_, _, _, _)
\* the loop "while queue" (fifo is the local deque named queue): its first statement is
\* queue.pop(0)
Bfs(adj, max_jumps, visited, fifo) ==
    IF fifo = << >> THEN [raised |-> "", visited |-> visited]
    ELSE LET popped == deque_pop(fifo, <<0>>)
             current == popped.value
             dist == visited[current]
         IN IF popped.raised # "" THEN [raised |-> popped.raised, visited |-> visited]
            ELSE IF dist >= max_jumps THEN Bfs(adj, max_jumps, visited, popped.rest)
            ELSE LET v == Visit(adj[current], dist, visited, popped.rest)
                 IN Bfs(adj, max_jumps, v.visited, v.queue)

\* a client calls find_trade_routes with arguments of the set As
RouteStartOf(c, As) ==
    /\ call[c].pc = "idle"
    /\ call[c].result = Pending
    /\ \E a \in As : call' = [call EXCEPT ![c].pc = "resolve", ![c].args = a]
    /\ UNCHANGED <<engineVars, queue, enqueued, sweepVars, norm, jumps, book,
                 historyVars, beatVars, upsertVars>>

RouteStart(c) == RouteStartOf(c, CallArgs)

\* a first step that also deletes the order rows it is about to scan
RouteResolve_Purging(c) ==
    /\ call[c].pc = "resolve"
    /\ LET found == {s \in SdeSolarSystems : s.name = call[c].args.start_system_name}
       IN IF found = {}
          THEN call' = [call EXCEPT ![c].pc = "idle",
                                    ![c].result = [kind |-> "error", what |-> "not found", value |-> << >>]]
          ELSE call' = [call EXCEPT ![c].pc = "bfs",
                                    ![c].start_system_id = (CHOOSE s \in found : TRUE).system_id]
    /\ book' = {}
    /\ UNCHANGED <<engineVars, queue, enqueued, sweepVars, norm, jumps,
                 historyVars, beatVars, upsertVars>>

\* 1. Resolve Start System: an unknown name returns the error result
RouteResolve(c) ==
    /\ call[c].pc = "resolve"
    /\ LET found == {s \in SdeSolarSystems : s.name = call[c].args.start_system_name}
       IN IF found = {}
          THEN call' = [call EXCEPT ![c].pc = "idle",
                                    ![c].result = [kind |-> "error", what |-> "not found", value |-> << >>]]
          ELSE call' = [call EXCEPT ![c].pc = "bfs",
                                    ![c].start_system_id = (CHOOSE s \in found : TRUE).system_id]
    /\ UNCHANGED <<engineVars, queue, enqueued, sweepVars, norm, jumps, book,
                 historyVars, beatVars, upsertVars>>

\* 2. Find Neighbors (BFS): all jumps are read, the adjacency map built and the loop run.
\* An exception leaves the function through "async with", which closes the session. The
\* statements after the loop (3. Find Arbitrage, the sort and the slice) run only when
\* the loop ends without one.
RouteBfs(c) ==
    /\ call[c].pc = "bfs"
    /\ LET start == call[c].start_system_id
           adj == [s \in Systems |-> {j[2] : j \in {i \in jumps : i[1] = s}}]
           bfs == Bfs(adj, call[c].args.max_jumps, [s \in {start} |-> 0], <<start>>)
       IN IF bfs.raised # ""
          THEN call' = [call EXCEPT ![c].pc = "idle", ![c].visited = bfs.visited,
                                    ![c].result = [kind |-> "raised", what |-> bfs.raised,
                                                   value |-> << >>]]
          ELSE call' = [call EXCEPT ![c].pc = "arbitrage", ![c].visited = bfs.visited]
    /\ UNCHANGED <<engineVars, queue, enqueued, sweepVars, norm, jumps, book,
                 historyVars, beatVars, upsertVars>>

Route(c) ==
    \/ RouteStart(c)
    \/ RouteResolve(c)
    \/ RouteBfs(c)

----------------------------------------------------------------------------
(* The history table, its updater fetch_region_history and the route GET /history *)

\* the worker processes that may execute fetch_region_history, and the bound on their runs
HistWorkers == {"h1", "h2"}
\* upper bound on the number of fetch_region_history invocations
MaxHistRuns == 2

\* the types the region trades; get_markets_region_id_types lists 34 on page 1 and 35 on
\* page 2
HistTypes == {34, 35}
TypePage(t) == IF t = 34 THEN 1 ELSE 2

\* timedelta(days=90), in days
RetentionDays == 90
\* the UTC days the model runs through, as day numbers
Days == 100 .. 101
\* the dates the feed may hold a daily record for: the first day of the retention window
\* of day 100, which day 101 no longer retains, and the eve of day 100
HistDates == {10, 99}

\* market_history of the region as the number of rows stored under each (type_id, date)
HistKeys == HistTypes \X HistDates
NoHistory == [k \in HistKeys |-> 0]
\* the keys and, for one type, the dates that have a row
Keys(H) == {k \in HistKeys : H[k] > 0}
DatesOf(H, t) == {d \in HistDates : H[<<t, d>>] > 0}
Max(S) == CHOOSE m \in S : \A n \in S : n <= m

\* INSERT INTO market_history ... SELECT ... FROM temp_market_history ON CONFLICT
\* (region_id, type_id, date) DO NOTHING: a row whose key is stored is skipped
insert_history_Blind(H, t, ds) ==
    [k \in HistKeys |-> IF k[1] = t /\ k[2] \in ds THEN H[k] + 1 ELSE H[k]]

insert_history(H, t, ds) ==
    [k \in HistKeys |-> IF k[1] = t /\ k[2] \in ds /\ H[k] = 0 THEN 1 ELSE H[k]]

\* the locals of one invocation of fetch_region_history; temp_table: the session's open
\* transaction holds temp_market_history; before: the keys stored when the run started
NoHistRun ==
    [pc |-> "idle", type_ids |-> {}, yesterday |-> 0, types_to_fetch |-> {}, todo |-> {},
     cutoff_date |-> 0, existing_dates |-> [t \in HistTypes |-> {}], temp_table |-> FALSE,
     got |-> [t \in HistTypes |-> 0], before |-> {}]

\* a worker receives a fetch_region_history message and opens its session
HistStart(h) ==
    /\ hrun[h].pc = "idle"
    /\ hstarted < MaxHistRuns
    /\ hstarted' = hstarted + 1
    /\ hrun' = [hrun EXCEPT ![h] = [NoHistRun EXCEPT !.pc = "types",
                                                     !.before = Keys(history)]]
    /\ UNCHANGED <<engineVars, queue, enqueued, sweepVars, toolVars, today, hfeed, history,
                 beatVars, upsertVars>>

\* the listing of the region's types: page 1 must answer 200 or the task returns; a later
\* page that does not answer 200 is skipped
HistActiveTypes(h) ==
    /\ hrun[h].pc = "types"
    /\ \E ok1 \in BOOLEAN, ok2 \in BOOLEAN :
         hrun' = [hrun EXCEPT ![h] =
                    IF ok1
                    THEN [@ EXCEPT !.pc = "select",
                                   !.type_ids = {t \in HistTypes : TypePage(t) = 1 \/ ok2}]
                    ELSE NoHistRun]
    /\ UNCHANGED <<engineVars, queue, enqueued, sweepVars, toolVars, today, hfeed, history,
                 hstarted, beatVars, upsertVars>>

\* types_to_fetch: the listed types with no stored date or whose latest stored date is
\* before yesterday
types_to_fetch_Lagging(type_ids, H, day) ==
    {t \in type_ids : DatesOf(H, t) = {} \/ Max(DatesOf(H, t)) <= day - 1}

types_to_fetch(type_ids, H, day) ==
    {t \in type_ids : DatesOf(H, t) = {} \/ Max(DatesOf(H, t)) < day - 1}

\* the query of the latest stored date per type and the selection of the stale types
HistSelect(h) ==
    /\ hrun[h].pc = "select"
    /\ hrun' = [hrun EXCEPT ![h] =
                  [@ EXCEPT !.pc = "existing",
                            !.yesterday = today - 1,
                            !.types_to_fetch = types_to_fetch(hrun[h].type_ids, history, today),
                            !.todo = types_to_fetch(hrun[h].type_ids, history, today)]]
    /\ UNCHANGED <<engineVars, queue, enqueued, sweepVars, toolVars, today, hfeed, history,
                 hstarted, beatVars, upsertVars>>

\* the retention cutoff and the one query of the dates stored inside the window
HistExisting(h) ==
    /\ hrun[h].pc = "existing"
    /\ hrun' = [hrun EXCEPT ![h] =
                  [@ EXCEPT !.pc = "loop",
                            !.cutoff_date = today - RetentionDays,
                            !.existing_dates =
                                [t \in HistTypes |->
                                    {d \in DatesOf(history, t) : d >= today - RetentionDays}]]]
    /\ UNCHANGED <<engineVars, queue, enqueued, sweepVars, toolVars, today, hfeed, history,
                 hstarted, beatVars, upsertVars>>

\* the statuses a history request may answer with; 0 stands for a request that raised
HistStatuses == {200, 404, 500, 0}

\* the records of a 200 response that lie inside the retention window
recent_history(h, t) == {d \in hfeed[t] : d >= hrun[h].cutoff_date}
\* the records whose date the run did not find stored
rows_to_insert(h, t) == recent_history(h, t) \ hrun[h].existing_dates[t]

\* an iteration that treats 404 like a raised request: the handler rolls back
HistType_NotFoundRaises(h) ==
    /\ hrun[h].pc = "loop"
    /\ \E t \in hrun[h].todo, s \in HistStatuses :
         LET creates  == s = 200 /\ recent_history(h, t) # {}
             raises   == s \in {0, 404} \/ (creates /\ hrun[h].temp_table)
             inserts  == creates /\ ~raises /\ rows_to_insert(h, t) # {}
         IN  /\ history' = IF inserts
                           THEN insert_history(history, t, rows_to_insert(h, t))
                           ELSE history
             /\ hrun' = [hrun EXCEPT ![h] =
                           [@ EXCEPT !.todo = @ \ {t},
                                     !.got[t] = s,
                                     !.temp_table = IF raises \/ inserts THEN FALSE
                                                    ELSE IF creates THEN TRUE ELSE @]]
    /\ UNCHANGED <<engineVars, queue, enqueued, sweepVars, toolVars, today, hfeed, hstarted,
                 beatVars, upsertVars>>

\* a loop whose exception handler stands outside it: the first exception ends the loop
HistType_AbortsOnRaise(h) ==
    /\ hrun[h].pc = "loop"
    /\ \E t \in hrun[h].todo, s \in HistStatuses :
         LET creates  == s = 200 /\ recent_history(h, t) # {}
             raises   == s = 0 \/ (creates /\ hrun[h].temp_table)
             inserts  == creates /\ ~raises /\ rows_to_insert(h, t) # {}
         IN  /\ history' = IF inserts
                           THEN insert_history(history, t, rows_to_insert(h, t))
                           ELSE history
             /\ hrun' = [hrun EXCEPT ![h] =
                           [@ EXCEPT !.todo = IF raises THEN {} ELSE @ \ {t},
                                     !.got[t] = s,
                                     !.temp_table = IF raises \/ inserts THEN FALSE
                                                    ELSE IF creates THEN TRUE ELSE @]]
    /\ UNCHANGED <<engineVars, queue, enqueued, sweepVars, toolVars, today, hfeed, hstarted,
                 beatVars, upsertVars>>

\* one iteration of the loop over types_to_fetch: the request, and for a 200 response with
\* records inside the window CREATE TEMP TABLE ... ON COMMIT DROP, the copy and the insert
\* with its commit; the commit is reached only if there is a row to insert, so the
\* temporary table of an iteration that inserted nothing stays in the open transaction and
\* the next CREATE TEMP TABLE raises; an exception rolls the transaction back
HistType(h) ==
    /\ hrun[h].pc = "loop"
    /\ \E t \in hrun[h].todo, s \in HistStatuses :
         LET creates  == s = 200 /\ recent_history(h, t) # {}
             raises   == s = 0 \/ (creates /\ hrun[h].temp_table)
             inserts  == creates /\ ~raises /\ rows_to_insert(h, t) # {}
         IN  /\ history' = IF inserts
                           THEN insert_history(history, t, rows_to_insert(h, t))
                           ELSE history
             /\ hrun' = [hrun EXCEPT ![h] =
                           [@ EXCEPT !.todo = @ \ {t},
                                     !.got[t] = s,
                                     !.temp_table = IF raises \/ inserts THEN FALSE
                                                    ELSE IF creates THEN TRUE ELSE @]]
    /\ UNCHANGED <<engineVars, queue, enqueued, sweepVars, toolVars, today, hfeed, hstarted,
                 beatVars, upsertVars>>

\* the loop is over: db.close() ends the session and with it the open transaction, and the
\* locals of the invocation are gone
HistEnd(h) ==
    /\ hrun[h].pc = "loop"
    /\ hrun[h].todo = {}
    /\ hrun' = [hrun EXCEPT ![h] = NoHistRun]
    /\ UNCHANGED <<engineVars, queue, enqueued, sweepVars, toolVars, today, hfeed, history,
                 hstarted, beatVars, upsertVars>>

fetch_region_history(h) ==
    \/ HistStart(h)
    \/ HistActiveTypes(h)
    \/ HistSelect(h)
    \/ HistExisting(h)
    \/ HistType(h)
    \/ HistEnd(h)

\* GET /history for one type: cutoff_date is a datetime, so a stored date passes the filter
\* iff it is later than today - 90 days; the stored rows are fresh iff the latest of them
\* is today's; otherwise the feed is asked, and a 200 response with records inside the
\* window replaces every stored row of the type by those records
ApiWindow(d) == d > today - RetentionDays

get_market_history(t) ==
    LET items    == {d \in DatesOf(history, t) : ApiWindow(d)}
        is_fresh == items # {} /\ today - Max(items) < 1
        new_items == {d \in hfeed[t] : ApiWindow(d)}
    IN  /\ \E s \in {200, 500} :
             history' = IF ~is_fresh /\ s = 200 /\ new_items # {}
                        THEN [k \in HistKeys |->
                                IF k[1] = t THEN (IF k[2] \in new_items THEN 1 ELSE 0)
                                ELSE history[k]]
                        ELSE history
        /\ UNCHANGED <<engineVars, queue, enqueued, sweepVars, toolVars, today, hfeed, hrun,
                     hstarted, beatVars, upsertVars>>

\* the UTC date changes
Midnight ==
    /\ today + 1 \in Days
    /\ today' = today + 1
    /\ UNCHANGED <<engineVars, queue, enqueued, sweepVars, toolVars, hfeed, history, hrun,
                 hstarted, beatVars, upsertVars>>

\* no history run has started and the table is empty
IdleHistory ==
    /\ today = 100
    /\ hfeed = [t \in HistTypes |-> {}]
    /\ history = NoHistory
    /\ hrun = [h \in HistWorkers |-> NoHistRun]
    /\ hstarted = 0

----------------------------------------------------------------------------
(* The task names: the registry of the worker, the periodic schedule and the senders *)

\* the names under which @celery_app.task registers the tasks of worker.py
RegisteredTasks ==
    {"worker.fetch_all_regions_orders", "update_sde", "fetch_market_orders",
     "fetch_all_regions_history", "fetch_region_history"}

\* celery_app.conf.beat_schedule: the entries and the task name each one sends
beat_schedule ==
    {[entry |-> "fetch-all-regions-every-minute", task |-> "fetch_all_regions_orders"],
     [entry |-> "update-sde-daily", task |-> "update_sde"],
     [entry |-> "fetch-history-daily", task |-> "fetch_all_regions_history"]}

\* upper bound on the number of messages the beat scheduler sends
MaxBeats == 3

\* a task message: a name and the region argument (0: none)
Message(task, region) == [task |-> task, region |-> region]

\* every message a sender of the program can produce
Messages ==
    {Message(t, r) : t \in RegisteredTasks \cup {e.task : e \in beat_schedule},
                     r \in {0} \cup Regions}

\* the beat scheduler fires one entry: a message with the entry's task name
BeatSend(e) ==
    /\ beats < MaxBeats
    /\ beats' = beats + 1
    /\ inbox' = inbox \cup {Message(e.task, 0)}
    /\ UNCHANGED <<engineVars, queue, enqueued, sweepVars, toolVars, historyVars, upsertVars,
                 ran, rejected>>

\* the startup hook of the web application sends the order sweep through its task object,
\* that is under its registered name
Startup ==
    /\ Message("worker.fetch_all_regions_orders", 0) \notin inbox
    /\ inbox' = inbox \cup {Message("worker.fetch_all_regions_orders", 0)}
    /\ UNCHANGED <<engineVars, queue, enqueued, sweepVars, toolVars, historyVars, upsertVars,
                 ran, rejected, beats>>

\* the messages fetch_all_regions_history sends: fetch_region_history.delay(region_id)
\* for every region of sde_regions
history_fanout == {Message("fetch_region_history", r) : r \in Regions}

\* a worker receives a message: a name outside the registry is discarded with an error
\* (the message is acknowledged and no task runs); a registered task starts, and
\* fetch_all_regions_history sends its messages
Receive(m) ==
    /\ m \in inbox
    /\ IF m.task \in RegisteredTasks
       THEN /\ ran' = ran \cup {m}
            /\ rejected' = rejected
            /\ inbox' = (inbox \ {m}) \cup
                           (IF m.task = "fetch_all_regions_history" THEN history_fanout ELSE {})
       ELSE /\ rejected' = rejected \cup {m}
            /\ ran' = ran
            /\ inbox' = inbox \ {m}
    /\ UNCHANGED <<engineVars, queue, enqueued, sweepVars, toolVars, historyVars, upsertVars,
                   beats>>

\* nothing has been sent
IdleBeat ==
    /\ inbox = {}
    /\ ran = {}
    /\ rejected = {}
    /\ beats = 0

----------------------------------------------------------------------------
(* The bulk upsert of fetch_market_orders, with every column of market_orders *)

\* number of bulk upserts the model follows
MaxUpserts == 3

\* the versions under which the feed serves an order: every field differs between them
Versions == {1, 2}

\* an order as the feed serves it (res.data)
EsiOrder(o, v) ==
    [order_id |-> o, type_id |-> 33 + v, price |-> v, volume_remain |-> 10 * v,
     is_buy_order |-> (v = 1), issued |-> v, duration |-> 30 * v, min_volume |-> v,
     range |-> IF v = 1 THEN "station" ELSE "region", location_id |-> 60000000 + v]

EsiOrders == {EsiOrder(o, v) : o \in OrderIds, v \in Versions}

\* orders_to_process: what the Updated pages of one cycle returned, in page order
Batches == {<< >>} \cup {<<a>> : a \in EsiOrders} \cup {<<a, b>> : a, b \in EsiOrders}

\* str(order.price)
PriceText(p) == IF p = 1 THEN "1.0" ELSE "2.0"

\* writer.writerow([...]): the line of the CSV buffer for one order
CsvRow(order, region_id, fetch_start_time) ==
    [order_id |-> order.order_id, type_id |-> order.type_id, region_id |-> region_id,
     price |-> PriceText(order.price), volume_remain |-> order.volume_remain,
     is_buy_order |-> IF order.is_buy_order THEN 1 ELSE 0, issued |-> order.issued,
     duration |-> order.duration, min_volume |-> order.min_volume, range |-> order.range,
     location_id |-> order.location_id, updated_at |-> fetch_start_time]

\* no row is stored under the order_id
NoOrder == [type_id |-> 0]

\* the columns of a row of market_orders other than its key
Columns(c) ==
    [type_id |-> c.type_id, region_id |-> c.region_id, price |-> c.price,
     volume_remain |-> c.volume_remain, is_buy_order |-> c.is_buy_order, issued |-> c.issued,
     duration |-> c.duration, min_volume |-> c.min_volume, range |-> c.range,
     location_id |-> c.location_id, updated_at |-> c.updated_at]

\* the row of the temporary table with order_id o
Excluded(temp, o) == temp[CHOOSE i \in 1 .. Len(temp) : temp[i].order_id = o]

\* an upsert whose conflict branch overwrites every column
upsert_sql_Replacing(T, temp) ==
    [o \in OrderIds |->
        IF \E i \in 1 .. Len(temp) : temp[i].order_id = o
        THEN Columns(Excluded(temp, o))
        ELSE T[o]]

\* INSERT INTO market_orders (...) SELECT * FROM temp_market_orders
\* ON CONFLICT (order_id) DO UPDATE SET price, volume_remain, issued, updated_at
upsert_sql(T, temp) ==
    [o \in OrderIds |->
        IF \E i \in 1 .. Len(temp) : temp[i].order_id = o
        THEN IF T[o] = NoOrder
             THEN Columns(Excluded(temp, o))
             ELSE [T[o] EXCEPT !.price = Excluded(temp, o).price,
                               !.volume_remain = Excluded(temp, o).volume_remain,
                               !.issued = Excluded(temp, o).issued,
                               !.updated_at = Excluded(temp, o).updated_at]
        ELSE T[o]]

\* if orders_to_process: CREATE TEMP TABLE, the CSV buffer and COPY into the temporary
\* table for a cycle of region_id that collected batch; COPY raises on a repeated
\* order_id, the primary key of the temporary table, and the handler rolls back
BulkCopy(batch, region_id) ==
    LET fetch_start_time == upserts + 1
        csv == [i \in 1 .. Len(batch) |-> CsvRow(batch[i], region_id, fetch_start_time)]
    IN /\ temp_market_orders = << >>
       /\ upserts < MaxUpserts
       /\ upserts' = upserts + 1
       /\ temp_market_orders' =
              IF \E i, j \in 1 .. Len(batch) : i # j /\ batch[i].order_id = batch[j].order_id
              THEN << >>
              ELSE csv
       /\ UNCHANGED <<market_orders, engineVars, queue, enqueued, sweepVars, toolVars,
                      historyVars, beatVars>>

\* cursor.execute(upsert_sql) and, the temporary table being ON COMMIT DROP, the commit
BulkUpsert ==
    /\ temp_market_orders # << >>
    /\ market_orders' = upsert_sql(market_orders, temp_market_orders)
    /\ temp_market_orders' = << >>
    /\ UNCHANGED <<upserts, engineVars, queue, enqueued, sweepVars, toolVars, historyVars,
                   beatVars>>

\* no bulk upsert has run and market_orders is empty
IdleUpsert ==
    /\ market_orders = [o \in OrderIds |-> NoOrder]
    /\ temp_market_orders = << >>
    /\ upserts = 0

----------------------------------------------------------------------------

\* the sync engine, its queue and the fan-out before anything has run
InitEngine ==
    /\ clock = 0
    /\ place \in [OrderIds -> 0 .. NumPages]
    /\ feedChanges = 0
    /\ sendsEtag \in BOOLEAN
    /\ skipped = [r \in Regions |-> {}]
    /\ orders = [o \in OrderIds |-> NoRow]
    /\ etags = [r \in Regions |-> [p \in Pages |-> NoEtag]]
    /\ status = [r \in Regions |-> NoStatus]
    /\ queue = << >>
    /\ enqueued = 0
    /\ pc = [w \in Workers |-> "idle"]
    /\ run = [w \in Workers |-> IdleRun]
    /\ tx = [w \in Workers |-> NoTx]
    /\ result = [w \in Workers |-> NoResult]
    /\ lock = "free"
    /\ spc = [i \in Sweeps |-> "idle"]
    /\ todo = [i \in Sweeps |-> << >>]
    /\ sent = [i \in Sweeps |-> << >>]

\* no tool call is in flight and the tables the route tool reads are empty
IdleTools ==
    /\ norm = NoNorm
    /\ jumps = {}
    /\ book = {}
    /\ call = [c \in Callers |-> NoCall]

Init == InitEngine /\ IdleTools /\ IdleHistory /\ IdleBeat /\ IdleUpsert

----------------------------------------------------------------------------
(* Triggers *)

\* POST /refresh: fetch_market_orders.delay(region_id)
refresh_market_data(region_id) ==
    /\ enqueued < MaxJobs
    /\ queue' = Append(queue, region_id)
    /\ enqueued' = enqueued + 1
    /\ UNCHANGED <<engineVars, sweepVars, toolVars, historyVars, beatVars, upsertVars>>

----------------------------------------------------------------------------
(* fetch_market_orders(region_id), executed by worker w *)

\* a worker process takes the next message of the queue
TakeJob(w) ==
    /\ pc[w] = "idle"
    /\ w = "w1" \/ (pc["w1"] # "idle" /\ clock >= OverlapFrom)
    /\ queue # << >>
    /\ clock < MaxClock
    /\ run' = [run EXCEPT ![w] = [IdleRun EXCEPT !.region_id = Head(queue)]]
    /\ queue' = Tail(queue)
    /\ pc' = [pc EXCEPT ![w] = "start"]
    /\ result' = [result EXCEPT ![w] = NoResult]
    /\ UNCHANGED <<clock, place, feedChanges, sendsEtag, skipped, orders, etags, status, enqueued, tx, sweepVars,
                  toolVars, historyVars, beatVars, upsertVars>>

\* a start-of-cycle upsert whose conflict branch also sets orders_fetched back to 0
WriteStarted_ResetsCount(w) ==
    LET r == run[w].region_id
        t == clock + 1
    IN /\ pc[w] = "start"
       /\ ~StatusLocked(w, r)
       /\ clock' = t
       /\ status' = [status EXCEPT ![r] = [@ EXCEPT !.present = TRUE,
                                                    !.last_fetch_started = t,
                                                    !.last_fetch_success = FALSE,
                                                    !.orders_fetched = 0]]
       /\ run' = [run EXCEPT ![w].fetch_start_time = t,
                              ![w].stored_before =
                                  {o \in OrderIds : RegionOfOrder(o) = r /\ orders[o].live}]
       /\ pc' = [pc EXCEPT ![w] = "etags"]
       /\ UNCHANGED <<place, feedChanges, sendsEtag, skipped, orders, etags, queue, enqueued, tx, result,
                      sweepVars, toolVars, historyVars, beatVars, upsertVars>>

\* fetch_start_time = now; upsert of the status row (started, success = False); commit.
\* run[w].stored_before is history, not a local of the code: the orders of the region
\* that were stored when the cycle began
WriteStarted(w) ==
    LET r == run[w].region_id
        t == clock + 1
    IN /\ pc[w] = "start"
       /\ ~StatusLocked(w, r)
       /\ clock' = t
       /\ status' = [status EXCEPT ![r] = [@ EXCEPT !.present = TRUE,
                                                    !.last_fetch_started = t,
                                                    !.last_fetch_success = FALSE]]
       /\ run' = [run EXCEPT ![w].fetch_start_time = t,
                              ![w].stored_before =
                                  {o \in OrderIds : RegionOfOrder(o) = r /\ orders[o].live}]
       /\ pc' = [pc EXCEPT ![w] = "etags"]
       /\ UNCHANGED <<place, feedChanges, sendsEtag, skipped, orders, etags, queue, enqueued, tx, result,
                      sweepVars, toolVars, historyVars, beatVars, upsertVars>>

\* existing_etags = {row.page: row.etag ...}
ReadEtags(w) ==
    /\ pc[w] = "etags"
    /\ run' = [run EXCEPT ![w].existing_etags = etags[run[w].region_id]]
    /\ pc' = [pc EXCEPT ![w] = "page1"]
    /\ UNCHANGED <<clock, place, feedChanges, sendsEtag, skipped, orders, etags, status, queue, enqueued, tx,
                   result, sweepVars, toolVars, historyVars, beatVars, upsertVars>>

\* the locals after a page answered 200 with `data` and, when withEtag, an ETag header
PageUpdated(rn, p, data, withEtag) ==
    [rn EXCEPT !.any_page_changed = TRUE,
               !.orders_to_process = @ \o SortedSeq(data),
               !.etags_to_update = IF withEtag
                                   THEN Append(@, [page |-> p, etag |-> EtagOf(data)])
                                   ELSE @,
               !.got[p] = 200]

\* the locals after a page answered 304
PageUnchanged(rn, p) ==
    [rn EXCEPT !.any_page_unchanged = TRUE, !.got[p] = 304]

\* the request of page 1 and the branch on its status
FetchPage1(w) ==
    LET r == run[w].region_id
        header == normalize_etag_for_request(run[w].existing_etags[1])
        data == PageData(place, r, 1)
        rn == [run[w] EXCEPT !.bound = TRUE, !.page = 2]
        next == IF NumPages >= 2 THEN "pages" ELSE "upsert"
    IN /\ pc[w] = "page1"
       /\ \E st \in {FeedStatus(header, data)} \cup ErrorStatuses :
            \/ /\ st = 304
               /\ run' = [run EXCEPT ![w] = PageUnchanged(rn, 1)]
               /\ pc' = [pc EXCEPT ![w] = next]
            \/ /\ st = 200
               /\ run' = [run EXCEPT ![w] = PageUpdated(rn, 1, data, sendsEtag)]
               /\ pc' = [pc EXCEPT ![w] = next]
            \/ /\ st \in ErrorStatuses
               /\ run' = [run EXCEPT ![w] = [rn EXCEPT !.code = st, !.got[1] = st]]
               /\ pc' = [pc EXCEPT ![w] = "p1fail"]
       /\ UNCHANGED <<clock, place, feedChanges, sendsEtag, skipped, orders, etags, status, queue, enqueued, tx,
                      result, sweepVars, toolVars, historyVars, beatVars, upsertVars>>

\* a failure branch whose status upsert also sets orders_fetched back to 0
Page1Failed_ResetsCount(w) ==
    LET r == run[w].region_id
    IN /\ pc[w] = "p1fail"
       /\ ~StatusLocked(w, r)
       /\ status' = [status EXCEPT ![r] = [@ EXCEPT !.present = TRUE,
                                                    !.last_fetch_success = FALSE,
                                                    !.orders_fetched = 0]]
       /\ result' = [result EXCEPT ![w] = [status |-> "error", code |-> run[w].code,
                                           orders_count |-> 0]]
       /\ pc' = [pc EXCEPT ![w] = "idle"]
       /\ run' = [run EXCEPT ![w] = IdleRun]
       /\ UNCHANGED <<clock, place, feedChanges, sendsEtag, skipped, orders, etags, queue, enqueued, tx, sweepVars,
                  toolVars, historyVars, beatVars, upsertVars>>

\* page 1 answered neither 200 nor 304: mark the fetch failed, commit, return the error
Page1Failed(w) ==
    LET r == run[w].region_id
    IN /\ pc[w] = "p1fail"
       /\ ~StatusLocked(w, r)
       /\ status' = [status EXCEPT ![r] = [@ EXCEPT !.present = TRUE,
                                                    !.last_fetch_success = FALSE]]
       /\ result' = [result EXCEPT ![w] = [status |-> "error", code |-> run[w].code,
                                           orders_count |-> 0]]
       /\ pc' = [pc EXCEPT ![w] = "idle"]
       /\ run' = [run EXCEPT ![w] = IdleRun]
       /\ UNCHANGED <<clock, place, feedChanges, sendsEtag, skipped, orders, etags, queue, enqueued, tx, sweepVars,
                  toolVars, historyVars, beatVars, upsertVars>>

\* one turn of the loop over pages 2 .. pages
FetchPage(w) ==
    LET r == run[w].region_id
        p == run[w].page
        header == normalize_etag_for_request(run[w].existing_etags[p])
        data == PageData(place, r, p)
        rn == [run[w] EXCEPT !.page = p + 1]
    IN /\ pc[w] = "pages"
       /\ \E st \in {FeedStatus(header, data)} \cup ErrorStatuses :
            \/ /\ st = 304
               /\ run' = [run EXCEPT ![w] = PageUnchanged(rn, p)]
            \/ /\ st = 200
               /\ run' = [run EXCEPT ![w] = PageUpdated(rn, p, data, sendsEtag)]
            \/ /\ st \in ErrorStatuses
               /\ run' = [run EXCEPT ![w] = [rn EXCEPT !.got[p] = st]]
       /\ pc' = [pc EXCEPT ![w] = IF p >= NumPages THEN "upsert" ELSE "pages"]
       /\ UNCHANGED <<clock, place, feedChanges, sendsEtag, skipped, orders, etags, status, queue, enqueued, tx,
                      result, sweepVars, toolVars, historyVars, beatVars, upsertVars>>

\* the locals the handler and the last line of the function still read once the try
\* block is left by an exception
Unwound(rn) ==
    [IdleRun EXCEPT !.region_id = rn.region_id,
                    !.fetch_start_time = rn.fetch_start_time,
                    !.bound = rn.bound,
                    !.orders_to_process = rn.orders_to_process]

\* COPY into the temporary table raises on a repeated order_id (its primary key)
HasDuplicates(s) == \E i, j \in 1 .. Len(s) : i # j /\ s[i] = s[j]

\* the session's writes after INSERT ... ON CONFLICT (order_id) DO UPDATE of the collected rows
UpsertRows(w) ==
    [o \in OrderIds |->
        IF o \in Range(run[w].orders_to_process)
        THEN [w |-> TRUE, live |-> TRUE, updated_at |-> run[w].fetch_start_time]
        ELSE tx[w].ord[o]]

\* a bulk upsert on a connection in autocommit mode: its rows are visible at once
Upsert_Autocommit(w) ==
    /\ pc[w] = "upsert"
    /\ run[w].orders_to_process # << >>
    /\ ~HasDuplicates(run[w].orders_to_process)
    /\ orders' = [o \in OrderIds |->
                     IF o \in Range(run[w].orders_to_process)
                     THEN [live |-> TRUE, updated_at |-> run[w].fetch_start_time]
                     ELSE orders[o]]
    /\ pc' = [pc EXCEPT ![w] = "cleanup"]
    /\ UNCHANGED <<clock, place, feedChanges, sendsEtag, skipped, etags, status, queue, enqueued, run, tx,
                   result, sweepVars, toolVars, historyVars, beatVars, upsertVars>>

\* if orders_to_process: the bulk upsert through the temporary table
Upsert(w) ==
    /\ pc[w] = "upsert"
    /\ \/ /\ run[w].orders_to_process = << >>
          /\ pc' = [pc EXCEPT ![w] = "cleanup"]
          /\ UNCHANGED <<tx, run>>
       \/ /\ run[w].orders_to_process # << >>
          /\ HasDuplicates(run[w].orders_to_process)
          /\ pc' = [pc EXCEPT ![w] = "markfail"]
          /\ tx' = [tx EXCEPT ![w] = NoTx]
          /\ run' = [run EXCEPT ![w] = Unwound(run[w])]
       \/ /\ run[w].orders_to_process # << >>
          /\ ~HasDuplicates(run[w].orders_to_process)
          /\ \A o \in Range(run[w].orders_to_process) : ~OrderLocked(w, o)
          /\ tx' = [tx EXCEPT ![w].ord = UpsertRows(w)]
          /\ pc' = [pc EXCEPT ![w] = "cleanup"]
          /\ run' = run
    /\ UNCHANGED <<clock, place, feedChanges, sendsEtag, skipped, orders, etags, status, queue, enqueued,
                   result, sweepVars, toolVars, historyVars, beatVars, upsertVars>>

\* a cleanup that does not test any_page_changed
Cleanup_Unconditional(w) ==
    LET last == ViewStatus(w, run[w].region_id).last_fetch_completed
    IN /\ pc[w] = "cleanup"
       /\ run' = [run EXCEPT ![w].last_fetch = last]
       /\ pc' = [pc EXCEPT ![w] = IF last = 0 THEN "wetags"
                                  ELSE IF run[w].any_page_unchanged THEN "bump"
                                  ELSE "delete"]
       /\ UNCHANGED <<clock, place, feedChanges, sendsEtag, skipped, orders, etags, status, queue, enqueued, tx,
                      result, sweepVars, toolVars, historyVars, beatVars, upsertVars>>

\* if any_page_changed and type_id is None: read last_fetch_completed; if last_fetch: ...
Cleanup(w) ==
    LET last == ViewStatus(w, run[w].region_id).last_fetch_completed
    IN /\ pc[w] = "cleanup"
       /\ \/ /\ run[w].any_page_changed
             /\ run' = [run EXCEPT ![w].last_fetch = last]
             /\ pc' = [pc EXCEPT ![w] = IF last = 0 THEN "wetags"
                                        ELSE IF run[w].any_page_unchanged THEN "bump"
                                        ELSE "delete"]
          \/ /\ ~run[w].any_page_changed
             /\ run' = run
             /\ pc' = [pc EXCEPT ![w] = "wetags"]
       /\ UNCHANGED <<clock, place, feedChanges, sendsEtag, skipped, orders, etags, status, queue, enqueued, tx,
                      result, sweepVars, toolVars, historyVars, beatVars, upsertVars>>

\* the rows of the region that worker w's session sees
RegionRows(w) == {o \in OrderIds : RegionOfOrder(o) = run[w].region_id /\ ViewOrder(w, o).live}

\* UPDATE market_orders SET updated_at = fetch_start_time WHERE region_id = :region_id
BumpRows(w) ==
    [o \in OrderIds |->
        IF o \in RegionRows(w)
        THEN [w |-> TRUE, live |-> TRUE, updated_at |-> run[w].fetch_start_time]
        ELSE tx[w].ord[o]]

Bump(w) ==
    /\ pc[w] = "bump"
    /\ \A o \in RegionRows(w) : ~OrderLocked(w, o)
    /\ tx' = [tx EXCEPT ![w].ord = BumpRows(w)]
    /\ pc' = [pc EXCEPT ![w] = "delete"]
    /\ UNCHANGED <<clock, place, feedChanges, sendsEtag, skipped, orders, etags, status, queue, enqueued, run,
                   result, sweepVars, toolVars, historyVars, beatVars, upsertVars>>

\* a delete whose comparison is <= instead of <
StaleRows_Inclusive(w) ==
    {o \in RegionRows(w) : ViewOrder(w, o).updated_at <= run[w].fetch_start_time}

\* the rows DELETE ... WHERE region_id = :region_id AND updated_at < :fetch_start_time removes
StaleRows(w) == {o \in RegionRows(w) : ViewOrder(w, o).updated_at < run[w].fetch_start_time}

DeleteRows(w) ==
    [o \in OrderIds |->
        IF o \in StaleRows(w) THEN [w |-> TRUE, live |-> FALSE, updated_at |-> 0]
        ELSE tx[w].ord[o]]

Delete(w) ==
    /\ pc[w] = "delete"
    /\ \A o \in StaleRows(w) : ~OrderLocked(w, o)
    /\ tx' = [tx EXCEPT ![w].ord = DeleteRows(w)]
    /\ pc' = [pc EXCEPT ![w] = "wetags"]
    /\ UNCHANGED <<clock, place, feedChanges, sendsEtag, skipped, orders, etags, status, queue, enqueued, run,
                   result, sweepVars, toolVars, historyVars, beatVars, upsertVars>>

\* a validator loop that writes a row for every page the feed answered
EtagRows_Answered(w) ==
    [p \in Pages |->
        IF run[w].got[p] # 0 THEN EtagOf(PageData(place, run[w].region_id, p))
        ELSE tx[w].etg[p]]

\* for page, etag in etags_to_update: upsert of the region_etags row
EtagRows(w) ==
    [p \in Pages |->
        IF \E i \in 1 .. Len(run[w].etags_to_update) : run[w].etags_to_update[i].page = p
        THEN LET i == CHOOSE k \in 1 .. Len(run[w].etags_to_update) :
                        run[w].etags_to_update[k].page = p
             IN run[w].etags_to_update[i].etag
        ELSE tx[w].etg[p]]

WriteEtags(w) ==
    /\ pc[w] = "wetags"
    /\ \A i \in 1 .. Len(run[w].etags_to_update) :
          ~EtagLocked(w, run[w].region_id, run[w].etags_to_update[i].page)
    /\ tx' = [tx EXCEPT ![w].etg = EtagRows(w)]
    /\ pc' = [pc EXCEPT ![w] = "wstatus"]
    /\ UNCHANGED <<clock, place, feedChanges, sendsEtag, skipped, orders, etags, status, queue, enqueued, run,
                   result, sweepVars, toolVars, historyVars, beatVars, upsertVars>>

\* a status write that records the completion time instead of fetch_start_time
CompletedStatus_Now(w) ==
    [status[run[w].region_id] EXCEPT !.present = TRUE,
                                     !.last_fetch_completed = clock,
                                     !.last_fetch_success = TRUE,
                                     !.orders_fetched = Len(run[w].orders_to_process)]

\* a completed-status upsert whose conflict branch leaves orders_fetched as it was
CompletedStatus_KeepsCount(w) ==
    [status[run[w].region_id] EXCEPT !.present = TRUE,
                                     !.last_fetch_completed = run[w].fetch_start_time,
                                     !.last_fetch_success = TRUE]

\* the status row a successful cycle writes
CompletedStatus(w) ==
    [status[run[w].region_id] EXCEPT !.present = TRUE,
                                     !.last_fetch_completed = run[w].fetch_start_time,
                                     !.last_fetch_success = TRUE,
                                     !.orders_fetched = Len(run[w].orders_to_process)]

WriteStatus(w) ==
    /\ pc[w] = "wstatus"
    /\ ~StatusLocked(w, run[w].region_id)
    /\ tx' = [tx EXCEPT ![w].st = [w |-> TRUE, row |-> CompletedStatus(w)]]
    /\ pc' = [pc EXCEPT ![w] = "commit"]
    /\ UNCHANGED <<clock, place, feedChanges, sendsEtag, skipped, orders, etags, status, queue, enqueued, run,
                   result, sweepVars, toolVars, historyVars, beatVars, upsertVars>>

\* the value fetch_market_orders returns at its last line
SuccessResult(w) ==
    [status |-> "success", code |-> 0, orders_count |-> Len(run[w].orders_to_process)]

\* db.commit(): the session's writes become the committed rows
Commit(w) ==
    LET r == run[w].region_id
    IN /\ pc[w] = "commit"
       /\ orders' = [o \in OrderIds |->
                        IF tx[w].ord[o].w
                        THEN [live |-> tx[w].ord[o].live, updated_at |-> tx[w].ord[o].updated_at]
                        ELSE orders[o]]
       /\ etags' = [etags EXCEPT ![r] = [p \in Pages |->
                        IF tx[w].etg[p] # NoEtag THEN tx[w].etg[p] ELSE etags[r][p]]]
       /\ status' = [status EXCEPT ![r] = IF tx[w].st.w THEN tx[w].st.row ELSE @]
       /\ tx' = [tx EXCEPT ![w] = NoTx]
       /\ result' = [result EXCEPT ![w] = SuccessResult(w)]
       /\ pc' = [pc EXCEPT ![w] = "idle"]
       /\ run' = [run EXCEPT ![w] = IdleRun]
       /\ skipped' = [skipped EXCEPT ![r] = {p \in Pages \ {1} : run[w].got[p] \in ErrorStatuses}]
       /\ UNCHANGED <<clock, place, feedChanges, sendsEtag, queue, enqueued, sweepVars, toolVars,
                      historyVars, beatVars, upsertVars>>

\* the places of the try block where a statement or a request can raise
RaisePoints == {"etags", "page1", "p1fail", "pages", "upsert", "cleanup", "bump", "delete",
                "wetags", "wstatus", "commit"}

\* except Exception: db.rollback()
Raise(w) ==
    /\ pc[w] \in RaisePoints
    /\ tx' = [tx EXCEPT ![w] = NoTx]
    /\ pc' = [pc EXCEPT ![w] = "markfail"]
    /\ run' = [run EXCEPT ![w] = Unwound(run[w])]
    /\ UNCHANGED <<clock, place, feedChanges, sendsEtag, skipped, orders, etags, status, queue, enqueued,
                   result, sweepVars, toolVars, historyVars, beatVars, upsertVars>>

\* what the function returns after the handler: its last line reads orders_to_process,
\* which is unbound when the exception came before line 232
HandlerResult(w) ==
    IF run[w].bound THEN SuccessResult(w)
    ELSE [status |-> "raised", code |-> 0, orders_count |-> 0]

\* the handler marks the fetch failed and commits
MarkFailed(w) ==
    LET r == run[w].region_id
    IN /\ pc[w] = "markfail"
       /\ ~StatusLocked(w, r)
       /\ status' = [status EXCEPT ![r] = [@ EXCEPT !.present = TRUE,
                                                    !.last_fetch_success = FALSE]]
       /\ result' = [result EXCEPT ![w] = HandlerResult(w)]
       /\ pc' = [pc EXCEPT ![w] = "idle"]
       /\ run' = [run EXCEPT ![w] = IdleRun]
       /\ UNCHANGED <<clock, place, feedChanges, sendsEtag, skipped, orders, etags, queue, enqueued, tx, sweepVars,
                  toolVars, historyVars, beatVars, upsertVars>>

\* the handler's own write raises: logged and passed over
MarkFailedRaises(w) ==
    /\ pc[w] = "markfail"
    /\ result' = [result EXCEPT ![w] = HandlerResult(w)]
    /\ pc' = [pc EXCEPT ![w] = "idle"]
    /\ run' = [run EXCEPT ![w] = IdleRun]
    /\ UNCHANGED <<clock, place, feedChanges, sendsEtag, skipped, orders, etags, status, queue, enqueued, tx,
                   sweepVars, toolVars, historyVars, beatVars, upsertVars>>

----------------------------------------------------------------------------
(* The remote feed changes: orders appear, disappear and move between pages *)

\* the places of a cycle between the answer to its page-1 request and its commit
AfterFirstPage == {"pages", "upsert", "cleanup", "bump", "delete", "wetags", "wstatus", "commit"}

\* run[w].feed_moved is history, not a local of the code: it records that the feed
\* changed after the cycle of worker w had received its first page
FeedChange ==
    /\ feedChanges < MaxFeedChanges
    /\ \E np \in [OrderIds -> 0 .. NumPages] :
          /\ np # place
          /\ place' = np
    /\ feedChanges' = feedChanges + 1
    /\ run' = [w \in Workers |->
                  IF pc[w] \in AfterFirstPage THEN [run[w] EXCEPT !.feed_moved = TRUE]
                  ELSE run[w]]
    /\ skipped' = [r \in Regions |-> {}]
    /\ UNCHANGED <<clock, sendsEtag, orders, etags, status, queue, enqueued, pc, tx,
                   result, sweepVars, toolVars, historyVars, beatVars, upsertVars>>

----------------------------------------------------------------------------
(* fetch_all_regions_orders(), invocation i *)

\* an acquire that does not look at the lock's holder
SweepAcquire_Blind(i) ==
    /\ spc[i] = "idle"
    /\ lock' = i
    /\ spc' = [spc EXCEPT ![i] = "list"]
    /\ UNCHANGED <<engineVars, queue, enqueued, todo, sent, toolVars, historyVars, beatVars, upsertVars>>

\* lock.acquire(blocking=False); return when the lock is held
SweepAcquire(i) ==
    /\ spc[i] = "idle"
    /\ \/ /\ lock = "free"
          /\ lock' = i
          /\ spc' = [spc EXCEPT ![i] = "list"]
       \/ /\ lock # "free"
          /\ lock' = lock
          /\ spc' = [spc EXCEPT ![i] = "skipped"]
    /\ UNCHANGED <<engineVars, queue, enqueued, todo, sent, toolVars, historyVars, beatVars, upsertVars>>

\* regions = db.query(SdeRegion).all(), or the query raises
SweepList(i) ==
    /\ spc[i] = "list"
    /\ \/ /\ todo' = [todo EXCEPT ![i] = SortedSeq(Regions)]
          /\ spc' = [spc EXCEPT ![i] = "dispatch"]
       \/ /\ todo' = todo
          /\ spc' = [spc EXCEPT ![i] = "caught"]
    /\ UNCHANGED <<engineVars, queue, enqueued, lock, sent, toolVars, historyVars, beatVars, upsertVars>>

\* for region in regions: fetch_market_orders.delay(region.region_id), or delay raises
SweepDispatch(i) ==
    /\ spc[i] = "dispatch"
    /\ \/ /\ todo[i] # << >>
          /\ queue' = Append(queue, Head(todo[i]))
          /\ sent' = [sent EXCEPT ![i] = Append(@, Head(todo[i]))]
          /\ todo' = [todo EXCEPT ![i] = Tail(@)]
          /\ spc' = spc
       \/ /\ todo[i] # << >>
          /\ spc' = [spc EXCEPT ![i] = "caught"]
          /\ UNCHANGED <<queue, sent, todo>>
       \/ /\ todo[i] = << >>
          /\ spc' = [spc EXCEPT ![i] = "release"]
          /\ UNCHANGED <<queue, sent, todo>>
    /\ UNCHANGED <<engineVars, enqueued, lock, toolVars, historyVars, beatVars, upsertVars>>

\* finally: lock.release(); a lock that expired is no longer owned and release raises
SweepRelease(i) ==
    /\ spc[i] \in {"release", "caught"}
    /\ \/ /\ lock = i
          /\ lock' = "free"
          /\ spc' = [spc EXCEPT ![i] = IF spc[i] = "caught" THEN "returned_error"
                                       ELSE "returned"]
       \/ /\ lock # i
          /\ lock' = lock
          /\ spc' = [spc EXCEPT ![i] = IF spc[i] = "caught" THEN "raised_error"
                                       ELSE "raised"]
    /\ UNCHANGED <<engineVars, queue, enqueued, todo, sent, toolVars, historyVars, beatVars, upsertVars>>

\* a lock created without a timeout: it never expires
LockExpire_Never ==
    /\ lock # "free"
    /\ spc[lock] = "idle"
    /\ UNCHANGED vars

\* the lock's timeout=300 passes before its holder released it
LockExpire ==
    /\ lock # "free"
    /\ spc[lock] \in {"list", "dispatch", "release", "caught"}
    /\ lock' = "free"
    /\ UNCHANGED <<engineVars, queue, enqueued, spc, todo, sent, toolVars, historyVars, beatVars, upsertVars>>

Sweep(i) ==
    \/ SweepAcquire(i)
    \/ SweepList(i)
    \/ SweepDispatch(i)
    \/ SweepRelease(i)

----------------------------------------------------------------------------
Cycle(w) ==
    \/ TakeJob(w)
    \/ WriteStarted(w)
    \/ ReadEtags(w)
    \/ FetchPage1(w)
    \/ Page1Failed(w)
    \/ FetchPage(w)
    \/ Upsert(w)
    \/ Cleanup(w)
    \/ Bump(w)
    \/ Delete(w)
    \/ WriteEtags(w)
    \/ WriteStatus(w)
    \/ Commit(w)
    \/ Raise(w)
    \/ MarkFailed(w)
    \/ MarkFailedRaises(w)

Next ==
    \/ \E r \in RefreshRegions : refresh_market_data(r)
    \/ \E w \in Workers : Cycle(w)
    \/ FeedChange

Spec == Init /\ [][Next]_vars

\* the producers of fetch_market_orders messages alone: the fan-out task, the expiry of
\* its lock and the on-demand trigger, and what they leave on the queue
NextFan ==
    \/ \E i \in Sweeps : Sweep(i)
    \/ LockExpire
    \/ \E r \in Regions : refresh_market_data(r)

\* the fan-out does not read the feed: one feed stands for all
InitFan == Init /\ sendsEtag /\ place = [o \in OrderIds |-> 1]

SpecFan == InitFan /\ [][NextFan]_vars

\* the invocations of the fan-out whose worker keeps running; the other one may stop at
\* any statement, the lock in hand
LiveSweeps == {"i2"}

\* the fan-out as time passes: redis removes the lock's key once its timeout has passed,
\* and a worker that keeps running executes the next statement of its task
SpecFanLive ==
    /\ InitFan /\ [][NextFan]_vars
    /\ WF_vars(LockExpire)
    /\ \A i \in LiveSweeps : WF_vars(Sweep(i))

\* the normalisation applied once to every value the validator column may hold
InitEtag ==
    /\ InitEngine /\ sendsEtag /\ place = [o \in OrderIds |-> 1]
    /\ norm \in [etag : StoredEtags, header : {NoEtag}, done : {FALSE}]
    /\ jumps = {} /\ book = {} /\ call = [c \in Callers |-> NoCall]
    /\ IdleHistory /\ IdleBeat /\ IdleUpsert

NextEtag == Normalize

SpecEtag == InitEtag /\ [][NextEtag]_vars

\* discovery calls over every jump graph and order book of the bounds, the sync engine idle
InitRoutes ==
    /\ InitEngine /\ sendsEtag /\ place = [o \in OrderIds |-> 1]
    /\ norm = NoNorm
    /\ jumps \in SUBSET JumpPairs
    /\ book \in SUBSET BookOrders
    /\ call = [c \in Callers |-> NoCall]
    /\ IdleHistory /\ IdleBeat /\ IdleUpsert

NextRoutes == \E c \in Callers : Route(c)

SpecRoutes == InitRoutes /\ [][NextRoutes]_vars

\* the arguments of the discovery calls that run beside the sync engine
BesideArgs == {a \in CallArgs : a.max_jumps = 2 /\ a.budget = 1000 /\ a.limit = DefaultLimit}

\* discovery calls interleaved with the sync cycles of one worker, over one jump graph and
\* one order book
InitBeside ==
    /\ InitEngine /\ sendsEtag /\ place = [o \in OrderIds |-> Min(o, NumPages)]
    /\ norm = NoNorm
    /\ jumps = {<<1, 2>>, <<2, 3>>}
    /\ book = BookOrders
    /\ call = [c \in Callers |-> NoCall]
    /\ IdleHistory /\ IdleBeat /\ IdleUpsert

NextBeside ==
    \/ \E r \in RefreshRegions : refresh_market_data(r)
    \/ \E w \in {"w1"} : Cycle(w)
    \/ FeedChange
    \/ \E c \in Callers : RouteStartOf(c, BesideArgs) \/ RouteResolve(c) \/ RouteBfs(c)

SpecBeside == InitBeside /\ [][NextBeside]_vars

\* the history runs of one worker and GET /history over every feed of the bounds, across
\* one change of the UTC date, the sync engine idle
InitHistory ==
    /\ InitEngine /\ sendsEtag /\ place = [o \in OrderIds |-> 1]
    /\ IdleTools /\ IdleBeat /\ IdleUpsert
    /\ today = 100
    /\ hfeed \in [HistTypes -> SUBSET HistDates]
    /\ history = NoHistory
    /\ hrun = [h \in HistWorkers |-> NoHistRun]
    /\ hstarted = 0

NextHistory ==
    \/ \E h \in {"h1"} : fetch_region_history(h)
    \/ \E t \in HistTypes : get_market_history(t)
    \/ Midnight

SpecHistory == InitHistory /\ [][NextHistory]_vars

\* the history runs of one worker with no other writer of the table
NextRuns ==
    \/ \E h \in {"h1"} : fetch_region_history(h)
    \/ Midnight

SpecRuns == InitHistory /\ [][NextRuns]_vars

\* history runs of two workers that may overlap, and GET /history, within one UTC day
NextOverlap ==
    \/ \E h \in HistWorkers : fetch_region_history(h)
    \/ \E t \in HistTypes : get_market_history(t)

SpecOverlap == InitHistory /\ [][NextOverlap]_vars

\* the senders of task messages and the worker that receives them, the tasks themselves
\* not run
InitTriggers ==
    /\ InitEngine /\ sendsEtag /\ place = [o \in OrderIds |-> 1]
    /\ IdleTools /\ IdleHistory /\ IdleBeat /\ IdleUpsert

NextTriggers ==
    \/ \E e \in beat_schedule : BeatSend(e)
    \/ Startup
    \/ \E r \in Regions : refresh_market_data(r)
    \/ \E m \in Messages : Receive(m)

SpecTriggers == InitTriggers /\ [][NextTriggers]_vars

\* the bulk upsert alone, over every batch of collected orders
InitUpsert ==
    /\ InitEngine /\ sendsEtag /\ place = [o \in OrderIds |-> 1]
    /\ IdleTools /\ IdleHistory /\ IdleBeat /\ IdleUpsert

NextUpsert ==
    \/ \E batch \in Batches : \E region_id \in Regions : BulkCopy(batch, region_id)
    \/ BulkUpsert

SpecUpsert == InitUpsert /\ [][NextUpsert]_vars

----------------------------------------------------------------------------
(* Steps of a cycle, as the properties below name them *)

\* worker w's session commits a cycle
CommitStep(w) == pc[w] = "commit" /\ pc'[w] = "idle"

\* the orders the Updated pages of worker w's cycle returned
Reported(w) == Range(run[w].orders_to_process)

\* the stored orders of region r
Stored(tbl, r) == {o \in OrderIds : RegionOfOrder(o) = r /\ tbl[o].live}

----------------------------------------------------------------------------
\* C1: every order that an Updated page of a cycle returned is stored, with the cycle's
\* start time as its updated_at, in the state the cycle's commit produces, whatever the
\* other pages of the cycle returned.
C1_ReportedOrdersStored ==
    [][\A w \in Workers :
          CommitStep(w) =>
             \A o \in Reported(w) :
                orders'[o].live /\ orders'[o].updated_at = run[w].fetch_start_time]_vars

\* a cycle about to commit whose page 1 was Updated with an order and whose page 2 was
\* Unchanged, after the bump and the delete ran
C1_Witness ==
    \E w \in Workers :
       /\ pc[w] = "commit"
       /\ run[w].got[1] = 200 /\ run[w].got[2] = 304
       /\ Reported(w) # {}
       /\ run[w].last_fetch # 0

----------------------------------------------------------------------------
\* a cycle in which at least one page returned Updated and at least one Unchanged
Mixed(w) == run[w].any_page_changed /\ run[w].any_page_unchanged

\* worker w's cycle ran alone over a feed that did not change while it ran
Undisturbed(w) ==
    /\ \A v \in Workers \ {w} : pc[v] = "idle"
    /\ \A p \in Pages : run[w].got[p] = 304 => run[w].existing_etags[p] = EtagOf(PageData(place, run[w].region_id, p))
    /\ \A p \in Pages : run[w].got[p] = 200 =>
          \A o \in PageData(place, run[w].region_id, p) : o \in Reported(w)
    /\ \A o \in Reported(w) : place[o] # 0 /\ run[w].got[place[o]] = 200

\* C2: in a cycle where at least one page returned Updated and at least one Unchanged,
\* a previously stored order of the region is deleted by the cycle if and only if it is
\* missing from every page of the feed.
C2_MixedCycleDeletesExactlyTheMissing ==
    [][\A w \in Workers :
          (CommitStep(w) /\ Mixed(w) /\ Undisturbed(w)) =>
             \A o \in Stored(orders, run[w].region_id) :
                (~orders'[o].live) <=> (place[o] = 0)]_vars

----------------------------------------------------------------------------
\* a cycle in which every page returned Updated
FullyRefetched(w) == \A p \in Pages : run[w].got[p] = 200

\* C3: in a full-region cycle where every page returned Updated, every order stored for
\* the region that is absent from the feed is deleted, so after the commit the stored
\* orders of the region are exactly the orders the feed returned.
C3_FullCycleStoresExactlyTheFeed ==
    [][\A w \in Workers :
          (CommitStep(w) /\ FullyRefetched(w)) =>
             Stored(orders', run[w].region_id) = Reported(w)]_vars

\* the rows worker w's transaction has written and left in the table
WrittenLive(w) == {o \in OrderIds : tx[w].ord[o].w /\ tx[w].ord[o].live}

Running(r) == {w \in Workers : pc[w] # "idle" /\ run[w].region_id = r}

\* C5: at most one sync run per region is in progress at any time.
C5_OneRunPerRegion == \A r \in Regions : Cardinality(Running(r)) <= 1

\* invocation i has ended
SweepEnded(i) == spc[i] \in {"skipped", "returned", "returned_error", "raised", "raised_error"}

\* invocation i starts while the lock is held
StartsWhileHeld(i) == spc[i] = "idle" /\ spc'[i] # "idle" /\ lock # "free"

IsPrefix(s, t) == Len(s) <= Len(t) /\ \A k \in 1 .. Len(s) : s[k] = t[k]

\* C6 as stated: an invocation that found the lock held has dispatched nothing, and every
\* invocation that obtained the lock has dispatched exactly one job per region.
C6_HolderDispatchesEveryRegion ==
    \A i \in Sweeps :
       /\ spc[i] = "skipped" => sent[i] = << >>
       /\ (SweepEnded(i) /\ spc[i] # "skipped") => sent[i] = SortedSeq(Regions)

\* C6 (amended): an invocation that starts while the lock is held dispatches no job and
\* returns normally; an invocation that obtained the lock and whose region query and
\* dispatches did not raise has dispatched exactly one job per region; when the region
\* query or a dispatch raised, the jobs it dispatched are a prefix of the catalog.
C6_FanOutUnderLock ==
    [][\A i \in Sweeps :
          /\ StartsWhileHeld(i) =>
                /\ spc'[i] = "skipped"
                /\ sent'[i] = << >>
                /\ queue' = queue
                /\ lock' = lock
          /\ spc'[i] = "skipped" => sent'[i] = << >>
          /\ spc'[i] \in {"returned", "raised"} => sent'[i] = SortedSeq(Regions)
          /\ spc'[i] \in {"returned_error", "raised_error"} =>
                /\ IsPrefix(sent'[i], SortedSeq(Regions))
                /\ sent'[i] # SortedSeq(Regions)]_vars

\* one invocation was skipped while the other, holding the lock, dispatched every region
C6_Witness ==
    \E i, j \in Sweeps :
       /\ spc[i] = "skipped"
       /\ spc[j] = "returned"
       /\ sent[j] = SortedSeq(Regions)
       /\ sent[i] = << >>

\* the validators the cycle of worker w read at its start are those of the feed as it is
\* and as it was for every page request of the cycle: the previous sync stored a
\* validator for every page and upstream has not changed since
InSync(w) ==
    /\ ~run[w].feed_moved
    /\ \A p \in Pages :
          /\ run[w].existing_etags[p] # NoEtag
          /\ run[w].existing_etags[p] = EtagOf(PageData(place, run[w].region_id, p))

\* C7: a committed cycle stores the validator every Updated page returned; and a cycle
\* that runs with the stored validators of an unchanged feed gets Unchanged for every
\* page the feed answers (no page is Updated), collects no order, and its commit inserts,
\* updates and deletes no order row and changes no validator.
C7_SecondSyncChangesNothing ==
    [][\A w \in Workers :
          CommitStep(w) =>
             /\ \A k \in 1 .. Len(run[w].etags_to_update) :
                   etags'[run[w].region_id][run[w].etags_to_update[k].page]
                      = run[w].etags_to_update[k].etag
             /\ InSync(w) =>
                   /\ \A p \in Pages : run[w].got[p] = 304 \/ run[w].got[p] \in ErrorStatuses
                   /\ run[w].orders_to_process = << >>
                   /\ \A o \in OrderIds : ~tx[w].ord[o].w
                   /\ orders' = orders
                   /\ etags' = etags]_vars

\* a second sync of a region with stored orders and validators, upstream unchanged,
\* about to commit
C7_Witness ==
    \E w \in Workers :
       /\ pc[w] = "commit"
       /\ InSync(w)
       /\ \A p \in Pages : run[w].got[p] = 304
       /\ status[run[w].region_id].last_fetch_completed # 0
       /\ Stored(orders, run[w].region_id) # {}
       /\ \A v \in Workers \ {w} : pc[v] = "idle"

\* the committed tables after all the writes of worker w's transaction, and nothing else
AppliedOrders(w) ==
    [o \in OrderIds |->
        IF tx[w].ord[o].w
        THEN [live |-> tx[w].ord[o].live, updated_at |-> tx[w].ord[o].updated_at]
        ELSE orders[o]]

AppliedEtags(w) ==
    [etags EXCEPT ![run[w].region_id] =
        [p \in Pages |-> IF tx[w].etg[p] # NoEtag THEN tx[w].etg[p] ELSE @[p]]]

\* a step that changes what readers of the committed tables see of a reconciliation
ReconciliationVisible ==
    \/ orders' # orders
    \/ etags' # etags
    \/ \E r \in Regions : status'[r].last_fetch_success /\ ~status[r].last_fetch_success

\* C8: the committed order table, the committed validators and a success status change
\* only in the commit step of one cycle, and that step applies together every write of the
\* cycle (upserts, bumps, deletes, validators, final status); a rollback applies none.
C8_ReconciliationAtOneCommit ==
    [][/\ ReconciliationVisible =>
             \E w \in Workers :
                /\ CommitStep(w)
                /\ tx[w].st.w
                /\ orders' = AppliedOrders(w)
                /\ etags' = AppliedEtags(w)
                /\ status'[run[w].region_id] = tx[w].st.row
                /\ tx'[w] = NoTx
       /\ \A w \in Workers :
             (pc[w] # "markfail" /\ pc'[w] = "markfail") =>
                (orders' = orders /\ etags' = etags /\ tx'[w] = NoTx)]_vars

\* a cycle about to commit an upsert, a delete, a validator and its final status at once
C8_Witness ==
    \E w \in Workers :
       /\ pc[w] = "commit"
       /\ \E o \in OrderIds : tx[w].ord[o].w /\ tx[w].ord[o].live
       /\ \E o \in OrderIds : tx[w].ord[o].w /\ ~tx[w].ord[o].live /\ orders[o].live
       /\ \E p \in Pages : tx[w].etg[p] # NoEtag
       /\ tx[w].st.w

\* worker w's page-1 request is answered with a status other than 200 and 304
Page1Rejected(w) ==
    /\ pc[w] = "page1"
    /\ pc'[w] \notin {"page1", "markfail"}
    /\ run'[w].got[1] \notin {200, 304}

\* worker w's cycle ends in the page-1 failure branch
Page1FailureEnds(w) == pc[w] = "p1fail" /\ pc'[w] = "idle"

Raises(w) == pc[w] \in RaisePoints /\ pc'[w] = "markfail"

\* worker w's cycle ends in the exception handler
HandlerEnds(w) == pc[w] = "markfail" /\ pc'[w] = "idle"

\* C10: when a step after the start-status write raises, the rollback leaves the order
\* table and the validator table as they are and keeps nothing of the cycle's writes, and
\* when the cycle has ended in the handler FetchStatus has last_fetch_success = FALSE
\* with last_fetch_completed unchanged.
C10_FailedCycleLeavesTablesAndMarksFailed ==
    [][\A w \in Workers :
          LET r == run[w].region_id
          IN /\ Raises(w) =>
                   /\ orders' = orders
                   /\ etags' = etags
                   /\ tx'[w] = NoTx
                   /\ status'[r].last_fetch_completed = status[r].last_fetch_completed
             /\ HandlerEnds(w) =>
                   /\ tx[w] = NoTx
                   /\ orders' = orders
                   /\ etags' = etags
                   /\ status'[r].last_fetch_completed = status[r].last_fetch_completed
                   /\ status'[r].last_fetch_success = FALSE]_vars

----------------------------------------------------------------------------
\* the bulk upsert of worker w's cycle executes
UpsertStep(w) == pc[w] = "upsert" /\ pc'[w] = "cleanup"

\* the orders stored for the region before the cycle of worker w that the feed serves
\* on a page that answered 304 to the cycle
BehindUnchanged(w) ==
    {o \in run[w].stored_before : place[o] # 0 /\ run[w].got[place[o]] = 304}

\* C11: in a cycle with at least one Unchanged and at least one Updated page, the rows
\* the bulk upsert writes are exactly the rows of the Updated pages, and every stored
\* order of the region that sits behind an Unchanged page is still stored after the commit.
C11_RowsBehindUnchangedSurvive ==
    [][\A w \in Workers :
          /\ UpsertStep(w) =>
                {o \in OrderIds : tx'[w].ord[o].w} = Reported(w)
          /\ (CommitStep(w) /\ Mixed(w)) =>
                \A o \in BehindUnchanged(w) : orders'[o].live]_vars

----------------------------------------------------------------------------
\* a value wrapped in one pair of double quotes
IsQuoted(e) == Len(e) >= 2 /\ e[1] = Quote /\ e[Len(e)] = Quote

\* the upstream header form: "tok" or W/"tok"
HeaderForm(e) ==
    \/ IsQuoted(e)
    \/ StartsWith(e, <<"W", "/">>) /\ IsQuoted(SubSeq(e, 3, Len(e)))

\* C12: normalising a normalised value returns it byte for byte, and a stored value that
\* already has the header form "tok" or W/"tok" is returned byte-identical.
C12_NormalizationRoundTrip ==
    norm.done =>
       /\ normalize_etag_for_request(norm.header) = norm.header
       /\ HeaderForm(norm.etag) => norm.header = norm.etag

\* a weak validator stored in header form has been normalised
C12_Witness ==
    /\ norm.done
    /\ norm.etag = <<"W", "/", Quote, "a", Quote>>
    /\ norm.header = norm.etag

\* the characters of a bare token: neither the quote nor the blank
TokenChars == Chars \ {Quote, " "}
\* a non-empty bare token
IsToken(tok) == tok # << >> /\ \A i \in 1 .. Len(tok) : tok[i] \in TokenChars
\* the spellings of the weak prefix a stored value may carry, and none
Prefixes == {<< >>, <<"W", "/">>, <<"w", "/">>}
\* a token that does not itself start like a weak prefix
Plain(tok) == ~StartsWith(tok, <<"W", "/">>) /\ ~StartsWith(tok, <<"w", "/">>)

\* the stored forms of token tok under prefix pre: unquoted and quoted
StoredForms(pre, tok) == {pre \o tok, pre \o <<Quote>> \o tok \o <<Quote>>}

\* the tokens that stored value e is a form of under prefix pre
TokensOf(pre, e) ==
    IF ~StartsWith(e, pre) THEN {}
    ELSE LET rest == SubSeq(e, Len(pre) + 1, Len(e))
         IN {tok \in {rest} \cup (IF IsQuoted(rest) THEN {SubSeq(rest, 2, Len(rest) - 1)} ELSE {}) :
                IsToken(tok) /\ e \in StoredForms(pre, tok)}

\* the header value of token tok: quoted once, W/ in front iff weak
HeaderOf(pre, tok) ==
    (IF pre = << >> THEN << >> ELSE <<"W", "/">>) \o <<Quote>> \o tok \o <<Quote>>

\* C13 as stated: for every non-empty stored token, quoted or unquoted, with or without a
\* weak prefix, the result is the token in one pair of quotes, preceded by W/ iff the
\* input carried a weak prefix (so both forms of a token give the same header value).
C13_EveryTokenNormalized ==
    norm.done =>
       \A pre \in Prefixes : \A tok \in TokensOf(pre, norm.etag) :
          norm.header = HeaderOf(pre, tok)

\* C13 amended: the same for every token that does not itself begin with W/ or w/.
C13_PlainTokenNormalized ==
    norm.done =>
       \A pre \in Prefixes : \A tok \in TokensOf(pre, norm.etag) :
          Plain(tok) => norm.header = HeaderOf(pre, tok)

\* an unquoted token stored with the lower-case weak prefix has been normalised
C13_Witness ==
    /\ norm.done
    /\ norm.etag = <<"w", "/", "a", "/", "a">>
    /\ norm.header = <<"W", "/", Quote, "a", "/", "a", Quote>>

----------------------------------------------------------------------------
RECURSIVE Within(_, _)
\* the systems a directed path of at most n jumps leads to from system s
Within(s, n) ==
    IF n = 0 THEN {s}
    ELSE LET W == Within(s, n - 1)
         IN W \cup {j[2] : j \in {i \in jumps : i[1] \in W}}

\* the length of the shortest directed path from s to t, for t within n jumps of s
Distance(s, t, n) == CHOOSE d \in 0 .. n : t \in Within(s, d) /\ \A e \in 0 .. d - 1 : t \notin Within(s, e)

\* the search phase of the call of client c is over
Searched(c) == call[c].start_system_id # 0 /\ call[c].pc \notin {"resolve", "bfs"}

\* C14: for a known start system and max_jumps = k, the reachable set the call has computed
\* holds a system iff its shortest directed path from the start has at most k jumps, and
\* the hop count recorded for it is that distance.
C14_ReachableWithinMaxJumps ==
    \A c \in Callers :
       Searched(c) =>
          LET start == call[c].start_system_id
              k == call[c].args.max_jumps
          IN /\ DOMAIN call[c].visited = Within(start, k)
             /\ \A t \in Within(start, k) : call[c].visited[t] = Distance(start, t, k)

----------------------------------------------------------------------------
\* the call of client c has ended
Ended(c) == call[c].result # Pending

\* the sell orders of type ty at system s
SellsAt(s, ty) == {o \in book : ~o.is_buy_order /\ o.solar_system_id = s /\ o.type_id = ty}

\* the minimum-priced sell order of type ty at system s
BestSell(s, ty) == CHOOSE o \in SellsAt(s, ty) : \A x \in SellsAt(s, ty) : o.price <= x.price

\* the quantity the claim asks for buy order b in a call from system s with the budget
Quantity(s, b, budget) ==
    Min(Min(b.volume_remain, BestSell(s, b.type_id).volume_remain),
        budget \div BestSell(s, b.type_id).price)

\* the buy orders the claim asks an opportunity for
Profitable(s, k, budget) ==
    {b \in book : /\ b.is_buy_order
                  /\ b.solar_system_id \in Within(s, k)
                  /\ SellsAt(s, b.type_id) # {}
                  /\ b.price > BestSell(s, b.type_id).price
                  /\ Quantity(s, b, budget) > 0}

\* the opportunity the claim asks for buy order b
Opportunity(s, k, budget, b) ==
    [order_id |-> b.order_id,
     quantity |-> Quantity(s, b, budget),
     total_cost |-> BestSell(s, b.type_id).price * Quantity(s, b, budget),
     total_profit |-> (b.price - BestSell(s, b.type_id).price) * Quantity(s, b, budget),
     jumps |-> Distance(s, b.solar_system_id, k)]

\* C16: the opportunities of a call from a known start system that holds a sell order are
\* exactly one per buy order in a reachable system whose type is sold at the start below
\* the buy price with a positive clamped volume, each with quantity = min(buy volume,
\* volume of the cheapest sell order) clamped to floor(budget / sell price),
\* total_profit = (buy price - sell price) * quantity and jumps = the hop count.
C16_OneOpportunityPerProfitableBuyOrder ==
    \A c \in Callers :
       (/\ Ended(c)
        /\ call[c].start_system_id # 0
        /\ \E o \in book : ~o.is_buy_order /\ o.solar_system_id = call[c].start_system_id) =>
          LET s == call[c].start_system_id
              k == call[c].args.max_jumps
              budget == call[c].args.budget
          IN /\ call[c].result.kind = "list"
             /\ {call[c].result.value[i] : i \in DOMAIN call[c].result.value}
                   = {Opportunity(s, k, budget, b) : b \in Profitable(s, k, budget)}

\* the scenario: Jita sells 100 units at 10, Amarr, two jumps away, buys 50 units at 15
Scenario(c) ==
    /\ jumps = {<<1, 2>>, <<2, 3>>}
    /\ book = {o \in BookOrders : o.order_id \in {101, 102}}
    /\ call[c].args.start_system_name = "Jita"
    /\ call[c].args.max_jumps = 2
    /\ call[c].args.limit = DefaultLimit

\* C17: in the scenario the call returns exactly one opportunity, with jumps 2 and, at
\* budget 1000, quantity 50, total_cost 500, total_profit 250; at budget 300, quantity 30,
\* total_cost 300, total_profit 150.
C17_ScenarioResult ==
    \A c \in Callers :
       (Ended(c) /\ Scenario(c)) =>
          /\ call[c].result.kind = "list"
          /\ Len(call[c].result.value) = 1
          /\ call[c].result.value[1].jumps = 2
          /\ call[c].args.budget = 1000 =>
                /\ call[c].result.value[1].quantity = 50
                /\ call[c].result.value[1].total_cost = 500
                /\ call[c].result.value[1].total_profit = 250
          /\ call[c].args.budget = 300 =>
                /\ call[c].result.value[1].quantity = 30
                /\ call[c].result.value[1].total_cost = 300
                /\ call[c].result.value[1].total_profit = 150

\* C19: a call whose start system name is unknown, or whose start system holds no sell
\* order, ends with the explicit error result: it raises no exception and returns no list.
C19_ExplicitErrorResult ==
    \A c \in Callers :
       (/\ Ended(c)
        /\ \/ \A s \in SdeSolarSystems : s.name # call[c].args.start_system_name
           \/ \A o \in book : o.is_buy_order \/ o.solar_system_id # call[c].start_system_id) =>
          call[c].result.kind = "error"

----------------------------------------------------------------------------
\* a step of the discovery call of client c
RouteStep(c) == call'[c] # call[c]

\* C20: a step of a discovery call, run alone or between the steps of a sync cycle and of
\* another discovery call, changes no row of the order, validator or fetch-status tables,
\* no row of the tables it reads, no uncommitted write, no lock and no queue.
C20_RouteDiscoveryReadOnly ==
    [][\A c \in Callers :
          RouteStep(c) =>
             UNCHANGED <<orders, etags, status, book, jumps, tx, pc, run, lock, queue>>]_vars

\* a discovery call has ended and another is searching while a sync cycle holds
\* uncommitted order rows
C20_Witness ==
    \E c \in Callers, d \in Callers, w \in Workers :
       /\ Ended(c) /\ call[c].start_system_id # 0
       /\ call[d].pc = "bfs"
       /\ pc[w] = "commit"
       /\ \E o \in OrderIds : tx[w].ord[o].w

----------------------------------------------------------------------------
(* The history table *)

\* C21: history is append-only: a row stored under (region, type, date) is neither updated
\* nor deleted by any step of fetch_region_history or of any other writer of the table
C21_HistoryAppendOnly ==
    [][\A k \in HistKeys : history[k] > 0 => history'[k] = history[k]]_vars

\* the step of worker h is an iteration of the loop over types_to_fetch
HistTypeStep(h) == hrun[h].pc = "loop" /\ hrun'[h].todo # hrun[h].todo

Stale(t) == \A d \in HistDates : history[<<t, d>>] > 0 => d < today - 1

\* the step of worker h selects the types to request
SelectStep(h) == hrun[h].pc = "select" /\ hrun'[h].pc = "existing"

\* C23: a run selects for a history request exactly the active types that have no stored
\* date or whose latest stored date is strictly older than yesterday; it requests only
\* selected types, and when it ends it has requested every one of them
C23_RequestsExactlyStaleTypes ==
    [][\A h \in HistWorkers :
          /\ SelectStep(h) =>
                /\ hrun'[h].types_to_fetch = {t \in hrun[h].type_ids : Stale(t)}
                /\ hrun'[h].todo = hrun'[h].types_to_fetch
          /\ HistTypeStep(h) =>
                /\ hrun[h].todo \ hrun'[h].todo \subseteq hrun[h].types_to_fetch
                /\ hrun'[h].types_to_fetch = hrun[h].types_to_fetch
          /\ (hrun[h].pc = "loop" /\ hrun'[h].pc = "idle") => hrun[h].todo = {}]_vars

\* a run has selected type 34, whose latest stored date is 90 days old, and skipped the
\* active type 35, whose latest stored date is yesterday
C23_Witness ==
    \E h \in HistWorkers :
       /\ hrun[h].pc = "existing"
       /\ today = 100
       /\ hrun[h].type_ids = {34, 35}
       /\ hrun[h].types_to_fetch = {34}
       /\ history[<<34, 10>>] = 1 /\ history[<<34, 99>>] = 0
       /\ history[<<35, 99>>] = 1

\* the step of worker h ends its history run
HistEndStep(h) == hrun[h].pc = "loop" /\ hrun'[h].pc = "idle"

\* C24: when a history run ends, for every type whose request returned 200 every returned
\* record inside the retention window whose date was not stored before the run is
\* stored, whatever the types processed earlier in the run returned
C24_ReturnedRecordsStored ==
    [][\A h \in HistWorkers :
          HistEndStep(h) =>
             \A t \in HistTypes :
                hrun[h].got[t] = 200 =>
                   \A d \in hfeed[t] :
                      (d >= hrun[h].cutoff_date /\ <<t, d>> \notin hrun[h].before) =>
                         history'[<<t, d>>] > 0]_vars

----------------------------------------------------------------------------
(* The triggers *)

\* C25: every task name the periodic schedule sends is the name of a registered task, so
\* no message is discarded; the on-demand refresh enqueues fetch_market_orders for a
\* region, and once the daily history sweep has started, a fetch_region_history message
\* has been sent for each region
C25_TriggersReachRegisteredTasks ==
    /\ rejected = {}
    /\ \A i \in DOMAIN queue : queue[i] \in Regions
    /\ Message("fetch_all_regions_history", 0) \in ran =>
          \A r \in Regions : Message("fetch_region_history", r) \in inbox \cup ran

----------------------------------------------------------------------------
(* The pages of a cycle *)

\* the step of worker w is the answer to its request of page 1
Page1Answered(w) == pc[w] = "page1" /\ pc'[w] \in {"pages", "upsert", "p1fail"}

\* C29: the request of page 1 of every cycle carries no cache validator, so page 1 is
\* never answered Unchanged
C29_Page1SentWithoutValidator ==
    [][\A w \in Workers :
          Page1Answered(w) =>
             /\ normalize_etag_for_request(run[w].existing_etags[1]) = NoEtag
             /\ run'[w].got[1] # 304]_vars

\* no page has answered Updated to the cycle of worker w so far
NoneUpdated(w) == \A p \in Pages : run[w].got[p] # 200

\* C28: in a cycle where no page returned Updated, no step of the cycle inserts, updates,
\* bumps or deletes an order row or changes a validator: its session holds no such write
\* and its commit leaves both tables as they are
C28_NoUpdatedPageNoWrite ==
    [][\A w \in Workers :
          (pc[w] # "idle" /\ pc'[w] # pc[w] /\ NoneUpdated(w)) =>
             /\ orders' = orders
             /\ etags' = etags
             /\ tx'[w].ord = NoTx.ord
             /\ tx'[w].etg = NoTx.etg]_vars

\* a cycle in which every page answered Unchanged is about to commit, over stored rows
\* and a recorded earlier completion
C28_Witness ==
    \E w \in Workers :
       /\ pc[w] = "commit"
       /\ \A p \in Pages : run[w].got[p] = 304
       /\ status[run[w].region_id].last_fetch_completed > 0
       /\ \E o \in OrderIds : RegionOfOrder(o) = run[w].region_id /\ orders[o].live

\* the validator worker w's cycle collected for page p
Collected(w, p) ==
    {run[w].etags_to_update[i].etag :
        i \in {k \in 1 .. Len(run[w].etags_to_update) : run[w].etags_to_update[k].page = p}}

\* C30: the stored validator of a (region, page) changes only at the commit of a cycle of
\* the region to which that page answered Updated with a validator header, and becomes
\* that validator; pages that answered Unchanged or failed, and every page of a cycle
\* that ended in a failure branch, keep their stored validator
C30_ValidatorChangesOnlyForUpdatedPages ==
    [][\A r \in Regions, p \in Pages :
          etags'[r][p] # etags[r][p] =>
             \E w \in Workers :
                /\ CommitStep(w)
                /\ run[w].region_id = r
                /\ run[w].got[p] = 200
                /\ sendsEtag
                /\ etags'[r][p] \in Collected(w, p)]_vars

\* a cycle has committed the validator of page 1 while page 2, which failed in every
\* cycle so far, has none
C30_Witness ==
    \E w \in Workers :
       /\ sendsEtag
       /\ pc[w] = "idle"
       /\ result[w].status = "success"
       /\ etags[1][1] # NoEtag
       /\ etags[1][2] = NoEtag

\* the pages after the first whose request failed in the cycle of worker w
FailedPages(w) == {p \in Pages \ {1} : run[w].got[p] \in ErrorStatuses}

\* the orders stored for the region before the cycle of worker w that the feed serves on
\* page p
Behind(w, p) == {o \in run[w].stored_before : place[o] = p}

\* C27: a failed request of a page other than page 1 does not end the cycle and collects
\* nothing; a cycle that commits after such a failure records last_fetch_success = TRUE,
\* stores no validator for the page and writes no watermark to the rows behind the page,
\* and it deletes those rows exactly when at least one page answered Updated and none
\* answered Unchanged
C27_FailedLaterPageIsSkipped ==
    [][\A w \in Workers :
          LET r == run[w].region_id
          IN /\ (pc[w] = "pages" /\ run'[w].got[run[w].page] \in ErrorStatuses) =>
                   /\ pc'[w] \in {"pages", "upsert"}
                   /\ run'[w].orders_to_process = run[w].orders_to_process
                   /\ run'[w].etags_to_update = run[w].etags_to_update
             /\ CommitStep(w) =>
                   \A p \in FailedPages(w) :
                      /\ status'[r].last_fetch_success
                      /\ etags'[r][p] = etags[r][p]
                      /\ ~run[w].feed_moved =>
                            \A o \in Behind(w, p) :
                               /\ ~(tx[w].ord[o].w /\ tx[w].ord[o].live)
                               /\ (tx[w].ord[o].w /\ ~tx[w].ord[o].live) <=>
                                     (run[w].any_page_changed /\ ~run[w].any_page_unchanged)]_vars

\* every page answered 200 or 304 to the cycle of worker w
AllAnswered(w) == \A p \in Pages : run[w].got[p] \in {200, 304}

\* C26: after a committed cycle in which a page other than page 1 failed, the next cycle
\* of the region in which every page request succeeds, over a feed that has not changed
\* since, leaves the table holding every order of the region the feed serves
C26_NextCleanCycleRestoresFeed ==
    [][\A w \in Workers :
          (CommitStep(w) /\ skipped[run[w].region_id] # {} /\ AllAnswered(w)) =>
             \A o \in OrderIds :
                (RegionOfOrder(o) = run[w].region_id /\ place[o] # 0) => orders'[o].live]_vars

----------------------------------------------------------------------------
(* C31: the status row at the start of a cycle *)

\* worker w executes the start-of-cycle status write and its commit
StartStep(w) == pc[w] = "start" /\ pc'[w] = "etags"

\* worker w receives the answer to its page-1 request
FirstRequest(w) == pc[w] = "page1" /\ run'[w].got[1] # 0

\* C31: the first statement of a cycle commits the region's status row with
\* last_fetch_started = the cycle's start time and last_fetch_success = FALSE, and
\* leaves last_fetch_completed and orders_fetched of the row as they were; the page-1
\* request is sent only by a cycle whose start has been committed (the committed row
\* carries that start time or the later one of a cycle that started after it)
C31_StartOfCycleStatus ==
    [][\A w \in Workers :
          LET r == run'[w].region_id
          IN /\ StartStep(w) =>
                  /\ status'[r].present
                  /\ status'[r].last_fetch_started = run'[w].fetch_start_time
                  /\ run'[w].fetch_start_time > clock
                  /\ ~status'[r].last_fetch_success
                  /\ status'[r].last_fetch_completed = status[r].last_fetch_completed
                  /\ status'[r].orders_fetched = status[r].orders_fetched
             /\ FirstRequest(w) =>
                  /\ run[w].fetch_start_time > 0
                  /\ status[r].present
                  /\ status[r].last_fetch_started >= run[w].fetch_start_time]_vars

\* a cycle has just started on a region whose row records an earlier completed cycle
\* that fetched orders
C31_Witness ==
    \E w \in Workers :
        LET r == run[w].region_id
        IN /\ pc[w] = "etags"
           /\ status[r].last_fetch_started = run[w].fetch_start_time
           /\ ~status[r].last_fetch_success
           /\ status[r].last_fetch_completed > 0
           /\ status[r].orders_fetched > 0

----------------------------------------------------------------------------
(* C32: the status row at the end of a cycle *)

\* the rows the feed served on the pages that answered Updated to worker w's cycle
UpdatedRows(w) ==
    UNION {PageData(place, run[w].region_id, p) : p \in {q \in Pages : run[w].got[q] = 200}}

\* C32: the commit of a cycle leaves the region's status row with last_fetch_completed =
\* the cycle's own start time, last_fetch_success = TRUE and orders_fetched = the number
\* of rows the cycle collected, which is the number of rows its Updated pages served
\* (while the feed kept still during the cycle) and 0 when no page answered Updated
C32_EndOfCycleStatus ==
    [][\A w \in Workers :
          CommitStep(w) =>
              LET r == run[w].region_id
              IN /\ status'[r].present
                 /\ status'[r].last_fetch_completed = run[w].fetch_start_time
                 /\ status'[r].last_fetch_success
                 /\ status'[r].orders_fetched = Len(run[w].orders_to_process)
                 /\ ~run[w].feed_moved =>
                        status'[r].orders_fetched = Cardinality(UpdatedRows(w))
                 /\ NoneUpdated(w) => status'[r].orders_fetched = 0]_vars

\* a cycle that collected rows has committed after a later cycle had started, so that its
\* start time is not the time of its end
C32_Witness ==
    \E w \in Workers : \E r \in Regions :
        /\ pc[w] = "idle"
        /\ result[w].status = "success"
        /\ result[w].orders_count > 0
        /\ status[r].last_fetch_success
        /\ status[r].orders_fetched = result[w].orders_count
        /\ status[r].last_fetch_completed > 0
        /\ status[r].last_fetch_completed < clock

----------------------------------------------------------------------------
(* C33: what the bulk upsert writes *)

\* the bulk upsert statement executes
UpsertSqlStep == temp_market_orders # << >> /\ temp_market_orders' = << >>

\* the order ids of the rows in the temporary table
Copied == {temp_market_orders[i].order_id : i \in 1 .. Len(temp_market_orders)}

\* C33: the bulk upsert stores, for every collected order whose order_id is new, a row with
\* the order's columns; for a stored order_id it sets price, volume_remain, issued and
\* updated_at (the cycle's start time) and leaves type_id, region_id, is_buy_order,
\* duration, min_volume, range and location_id of the stored row; rows of other order ids
\* stay as they are
C33_UpsertFrame ==
    [][UpsertSqlStep =>
          \A o \in OrderIds :
              LET old == market_orders[o]
                  new == market_orders'[o]
                  c == Excluded(temp_market_orders, o)
              IN /\ o \notin Copied => new = old
                 /\ o \in Copied /\ old = NoOrder => new = Columns(c)
                 /\ o \in Copied /\ old # NoOrder =>
                       /\ new.price = c.price
                       /\ new.volume_remain = c.volume_remain
                       /\ new.issued = c.issued
                       /\ new.updated_at = c.updated_at
                       /\ new.updated_at = upserts
                       /\ new.type_id = old.type_id
                       /\ new.region_id = old.region_id
                       /\ new.is_buy_order = old.is_buy_order
                       /\ new.duration = old.duration
                       /\ new.min_volume = old.min_volume
                       /\ new.range = old.range
                       /\ new.location_id = old.location_id]_vars

\* a stored row carries the price, volume and issue time of one version of the order and
\* the remaining columns of the other version, under which it was first stored
C33_Witness ==
    \E o \in OrderIds :
        /\ market_orders[o] # NoOrder
        /\ market_orders[o].price = "2.0"
        /\ market_orders[o].volume_remain = 20
        /\ market_orders[o].issued = 2
        /\ market_orders[o].updated_at > 1
        /\ market_orders[o].type_id = 34
        /\ market_orders[o].is_buy_order = 1
        /\ market_orders[o].duration = 30
        /\ market_orders[o].range = "station"
        /\ market_orders[o].location_id = 60000001
        /\ temp_market_orders = << >>

----------------------------------------------------------------------------
(* C34: the fan-out lock does not stay held *)

\* invocation i leaves the task after having held the lock
SweepLeaves(i) == ~SweepEnded(i) /\ spc'[i] \in {"returned", "returned_error", "raised", "raised_error"}

\* invocation i starts while the lock is free
StartsWhileFree(i) == spc[i] = "idle" /\ spc'[i] # "idle" /\ lock = "free"

\* C34: the lock is free again and again; an invocation that leaves the task, normally or
\* after the region query or a dispatch raised, does not leave the lock in its own name;
\* when a holder stops for good the lock expires, and an invocation that starts while the
\* lock is free acquires it and, its worker running, goes through dispatch to its end
C34_LockEventuallyFree ==
    /\ []<>(lock = "free")
    /\ \A i \in Sweeps : (lock = i) ~> (lock # i)
    /\ [][\A i \in Sweeps :
             /\ SweepLeaves(i) => lock' # i
             /\ StartsWhileFree(i) => lock' = i /\ spc'[i] = "list"]_vars
    /\ \A i \in LiveSweeps : (lock = i) ~> (SweepEnded(i) /\ lock # i)

\* the lock of a holder that has not released it has expired, and a later invocation has
\* acquired it and dispatched every region
C34_Witness ==
    \E i, j \in Sweeps :
       /\ spc[i] \in {"list", "dispatch"}
       /\ lock # i
       /\ spc[j] \in {"returned", "release"}
       /\ sent[j] = SortedSeq(Regions)

----------------------------------------------------------------------------
(* C35: a history request answered 404 *)

\* the step of worker h is the iteration for type t and its request answered status s
Answered(h, t, s) ==
    /\ HistTypeStep(h)
    /\ t \in hrun[h].todo \ hrun'[h].todo
    /\ hrun'[h].got[t] = s

\* C35: an iteration whose history request answers 404 writes no row, leaves the open
\* transaction of the session as it is (no rollback), and the run stays in its loop with
\* exactly the other types it had still to request
C35_NotFoundIsNoError ==
    [][\A h \in HistWorkers : \A t \in HistTypes :
          Answered(h, t, 404) =>
              /\ history' = history
              /\ hrun'[h].temp_table = hrun[h].temp_table
              /\ hrun'[h].pc = "loop"
              /\ hrun'[h].todo = hrun[h].todo \ {t}
              /\ hrun'[h].types_to_fetch = hrun[h].types_to_fetch]_vars

\* the request for one type was answered 404: nothing has been written since the run
\* began, and the run is in its loop with the other type still to be requested
C35_Witness ==
    \E h \in HistWorkers : \E t, u \in HistTypes :
       /\ hrun[h].pc = "loop"
       /\ hrun[h].got[t] = 404
       /\ hrun[h].got[u] = 0
       /\ hrun[h].todo = {u}
       /\ Keys(history) = hrun[h].before

----------------------------------------------------------------------------
(* C36: stored validators and stored rows *)

\* the orders the feed served on a page when it sent validator e with it
ServedUnder(e) == CHOOSE S \in SUBSET OrderIds : EtagOf(S) = e

\* C36: whenever a validator is stored for a page of a region, every order the feed
\* served on that page under that validator is stored in market_orders
C36_ValidatorImpliesContent ==
    \A r \in Regions : \A p \in Pages :
        etags[r][p] # NoEtag =>
            \A o \in ServedUnder(etags[r][p]) : orders[o].live

----------------------------------------------------------------------------
(* C37: the recorded completion time *)

\* C37: last_fetch_completed of a region never decreases, however the cycles of the
\* region interleave
C37_CompletionTimeMonotonic ==
    [][\A r \in Regions :
          status'[r].last_fetch_completed >= status[r].last_fetch_completed]_vars

----------------------------------------------------------------------------
(* C38: the value the task returns *)

\* C38: a call of fetch_market_orders ends with a success result only at the commit of
\* its cycle, which leaves last_fetch_success = TRUE; a call that ends in the exception
\* handler returns no success result
C38_SuccessResultOnlyAfterCommit ==
    [][\A w \in Workers :
          /\ (pc[w] # "idle" /\ pc'[w] = "idle" /\ result'[w].status = "success") =>
                /\ CommitStep(w)
                /\ status'[run[w].region_id].last_fetch_success
          /\ HandlerEnds(w) => result'[w].status # "success"]_vars

----------------------------------------------------------------------------
(* C39: the discovery call returns *)

\* the start system of the call of client c is known and holds a sell order
StartHasSellOrder(c) ==
    /\ call[c].start_system_id # 0
    /\ \E o \in book : ~o.is_buy_order /\ o.solar_system_id = call[c].start_system_id

\* C39: a call whose start system is known and holds a sell order ends, whatever the jump
\* graph and max_jumps, by returning a list of opportunities: it raises no exception
C39_RouteDiscoveryReturns ==
    \A c \in Callers :
       (Ended(c) /\ StartHasSellOrder(c)) => call[c].result.kind = "list"

----------------------------------------------------------------------------
(* C40: exceptions and the failed listing in a history run *)

\* the iteration of worker h for type t raises: its request raised, or its
\* CREATE TEMP TABLE found the table of an earlier iteration
RaisedFor(h, t) ==
    \/ Answered(h, t, 0)
    \/ /\ Answered(h, t, 200)
       /\ hrun[h].temp_table
       /\ recent_history(h, t) # {}

\* the first page of the type listing fails and the task returns
ListingFails(h) == hrun[h].pc = "types" /\ hrun'[h].pc = "idle"

\* C40: an iteration that raises changes no row of market_history (the rows the run
\* committed for earlier types stay), ends the session's open transaction, and leaves the
\* run in its loop with exactly the other types it had still to request; a run whose
\* first listing page fails ends having made no history request and no write
C40_HistoryFailureIsolation ==
    [][\A h \in HistWorkers :
          /\ \A t \in HistTypes :
                RaisedFor(h, t) =>
                    /\ history' = history
                    /\ ~hrun'[h].temp_table
                    /\ hrun'[h].pc = "loop"
                    /\ hrun'[h].todo = hrun[h].todo \ {t}
          /\ (hrun[h].pc = "idle" /\ hrun'[h].pc = "types") => history' = history
          /\ ListingFails(h) =>
                /\ history' = history
                /\ hrun[h].types_to_fetch = {}
                /\ \A t \in HistTypes : hrun[h].got[t] = 0]_vars

\* in one run the request for one type raised and the rows of the other type, inserted by
\* the run, are stored
C40_Witness ==
    \E h \in HistWorkers : \E t, u \in HistTypes :
       /\ hrun[h].pc = "loop"
       /\ hrun[h].todo = {}
       /\ hrun[h].types_to_fetch = {t, u}
       /\ t # u
       /\ hrun[h].got[t] = 0
       /\ hrun[h].got[u] = 200
       /\ \E d \in HistDates : history[<<u, d>>] = 1 /\ <<u, d>> \notin hrun[h].before

====
